---- MODULE Spec2Model ----
(***************************************************************************)
(* A model of the edit session, the role propagation and the save paths of *)
(* gold-dataset-editor (src/gold_dataset_editor).                          *)
(*                                                                         *)
(* Encoding of the Python values:                                          *)
(*  - a dict is a function whose domain is the set of its keys; a key that *)
(*    is absent and a key holding null are the same to every dict.get of   *)
(*    the handlers, and are both modelled as an absent key;                *)
(*  - a message that is not a dict (legacy data) is the function           *)
(*    [raw |-> text], told apart by IsDict;                                *)
(*  - a value handed to the undo history is tagged: <<"null">>,            *)
(*    <<"str", s>>, <<"bool", b>>, <<"list", l>>, and <<"text", chars>>    *)
(*    for a str whose characters the code inspects;                        *)
(*  - a path is <<root, relative path>>; record positions are zero-based   *)
(*    as in the code, position i is element i + 1 of the file's sequence;  *)
(*  - Optional[dict] is a sequence of length 0 (None) or 1.                *)
(***************************************************************************)
EXTENDS Integers, Sequences, FiniteSets, TLC

VARIABLES
    disk,              \* path -> sequence of entries: the JSONL files that exist
    unsaved_changes,   \* EditSession.unsaved_changes: <<path, index>> -> entry
    undo_stack,        \* EditSession.undo_stack: sequence of EntryEdit
    requests,          \* the requests handled so far, each with its response
    fs,                \* the directory write_jsonl_atomic works in: name -> lines
    wr,                \* the call of write_jsonl_atomic under way: its position and locals
    settings,          \* config.settings: the fields the handlers read
    loop               \* the requests the event loop accepted, in the order it runs them

vars == <<disk, unsaved_changes, undo_stack, requests, fs, wr, settings, loop>>

\* what the request handlers work on, and what one write_jsonl_atomic works on
handlerVars == <<disk, unsaved_changes, undo_stack, requests, settings, loop>>
writerVars == <<fs, wr>>

\* ---------------------------------------------------------------- bounds

MaxRequests == 3
MaxLen == 4
MaxRecorded == 103
MaxEntries == 2

\* ------------------------------------------------------- Python values

None == <<"null">>
Str(s) == <<"str", s>>
Bool(b) == <<"bool", b>>
List(l) == <<"list", l>>
\* a str the code reads character by character (a slot value): its characters
Text(chars) == <<"text", chars>>

EmptyDict == <<>>
Has(d, k) == k \in DOMAIN d
Put(d, k, v) == [x \in (DOMAIN d) \cup {k} |-> IF x = k THEN v ELSE d[x]]
Del(d, ks) == [x \in (DOMAIN d) \ ks |-> d[x]]

IsDict(m) == ~Has(m, "raw")

\* str(int) for the context indices a field path names
IntToStr(i) ==
    CASE i = 0 -> "0" [] i = 1 -> "1" [] i = 2 -> "2" [] i = 3 -> "3" [] OTHER -> "n"

\* ------------------------------------------------------------- settings

\* settings.data_root is the directory /data: one segment below "/"
data_root == "data"

\* reviewed_output_dir: Path | None = None
DefaultSettings == [reviewed_output_dir |-> <<>>]

\* settings.reviewed_output_dir or data_root.parent / "reviewed", as a path
_get_reviewed_root ==
    IF settings.reviewed_output_dir # <<>> THEN settings.reviewed_output_dir[1]
    ELSE <<"reviewed">>

\* ---------------------------------------------------------- EditSession

max_undo_history == 100

Session(u, h) == [unsaved_changes |-> u, undo_stack |-> h]

EntryEdit(file_path, entry_index, entry_id, field_path, old_value, new_value) ==
    [file_path |-> file_path, entry_index |-> entry_index, entry_id |-> entry_id,
     field_path |-> field_path, old_value |-> old_value, new_value |-> new_value]

\* mutant: at the cap the newest entry is dropped (pop() for pop(0))
record_change_EvictsNewest(s, file_path, entry_index, entry_id, field_path, old_value, new_value, modified_entry) ==
    LET edit == EntryEdit(file_path, entry_index, entry_id, field_path,
                          old_value, new_value)
        appended == Append(s.undo_stack, edit)
        stack == IF Len(appended) > max_undo_history THEN SubSeq(appended, 1, Len(appended) - 1) ELSE appended
    IN Session(Put(s.unsaved_changes, <<file_path, entry_index>>, modified_entry), stack)

\* mutant: the override is stored one position further
record_change_NextPosition(s, file_path, entry_index, entry_id, field_path, old_value, new_value, modified_entry) ==
    LET edit == EntryEdit(file_path, entry_index, entry_id, field_path,
                          old_value, new_value)
    IN Session(Put(s.unsaved_changes, <<file_path, entry_index + 1>>, modified_entry),
               Append(s.undo_stack, edit))

record_change(s, file_path, entry_index, entry_id, field_path, old_value, new_value, modified_entry) ==
    LET edit == EntryEdit(file_path, entry_index, entry_id, field_path,
                          old_value, new_value)
        appended == Append(s.undo_stack, edit)
        stack == IF Len(appended) > max_undo_history THEN Tail(appended) ELSE appended
    IN Session(Put(s.unsaved_changes, <<file_path, entry_index>>, modified_entry), stack)

\* mutant: the overrides of every collection are dropped
mark_saved_DropsAll(s, file_path) == Session(EmptyDict, s.undo_stack)

mark_saved(s, file_path) ==
    Session(Del(s.unsaved_changes, {k \in DOMAIN s.unsaved_changes : k[1] = file_path}),
            s.undo_stack)

\* mutant: every file is reported to have unsaved changes
has_unsaved_changes_Always(s, file_path) == TRUE

has_unsaved_changes(s, file_path) ==
    \E k \in DOMAIN s.unsaved_changes : k[1] = file_path

get_unsaved_entry(s, file_path, entry_index) ==
    IF <<file_path, entry_index>> \in DOMAIN s.unsaved_changes
    THEN <<s.unsaved_changes[<<file_path, entry_index>>]>>
    ELSE <<>>

\* ------------------------------------------------------- storage, indexer

\* Path.relative_to(root): the segments below root, <<>> for its ValueError
relative_to(path, root) ==
    IF Len(root) <= Len(path) /\ SubSeq(path, 1, Len(root)) = root
    THEN <<SubSeq(path, Len(root) + 1, Len(path))>>
    ELSE <<>>

\* Path.resolve() of done / rest (no symbolic links): ".." steps up, "/" is
\* its own parent; rest starting with "/" is absolute and replaces done
RECURSIVE resolve(_, _)
resolve(done, rest) ==
    IF rest = <<>> THEN done
    ELSE IF Head(rest) = "/" THEN resolve(<<>>, Tail(rest))
    ELSE IF Head(rest) = ".."
         THEN resolve(IF done = <<>> THEN done ELSE SubSeq(done, 1, Len(done) - 1), Tail(rest))
    ELSE resolve(Append(done, Head(rest)), Tail(rest))

\* the directories: "/", the data root, and what lies above a file
is_dir(d, path) ==
    \/ path = <<>>
    \/ path = <<data_root>>
    \/ \E f \in DOMAIN d : Len(path) < Len(f) /\ SubSeq(f, 1, Len(path)) = path

\* path.exists() and path.is_file() of done / rest: every step of the walk
\* goes through a directory that exists
RECURSIVE is_file(_, _, _)
is_file(d, done, rest) ==
    IF rest = <<>> THEN done \in DOMAIN d
    ELSE /\ is_dir(d, done)
         /\ is_file(d, resolve(done, <<Head(rest)>>), Tail(rest))

\* the text of a segment, in pieces: startswith compares texts, and the text
\* of one name can begin with the text of another
Spell(segment) ==
    CASE segment = "data2" -> <<"data", "2">>
      [] segment = "reviewed.old" -> <<"reviewed", ".old">>
      [] OTHER -> <<segment>>

\* str(path)
RECURSIVE str(_)
str(path) ==
    IF path = <<>> THEN <<>> ELSE <<"/">> \o Spell(Head(path)) \o str(Tail(path))

\* str.startswith
startswith(text, prefix) ==
    Len(prefix) <= Len(text) /\ SubSeq(text, 1, Len(prefix)) = prefix

\* indexer.py 87 and 111: str(path.resolve()).startswith(str(root))
InsideRoot(path, root) == startswith(str(path), str(root))

\* indexer.py 81-127, on the decoded relative path; root and reviewed_root
\* are resolved paths, reviewed_root is <<>> (None) or <<path>>.  The FileInfo
\* returned is modelled by the resolved path of the file it names.
FindFile(d, root, relative_path, reviewed_root) ==
    IF reviewed_root # <<>> /\ is_file(d, reviewed_root[1], relative_path)
    THEN (IF ~InsideRoot(resolve(reviewed_root[1], relative_path), reviewed_root[1]) THEN <<>>
          ELSE <<resolve(reviewed_root[1], relative_path)>>)
    ELSE IF ~is_file(d, root, relative_path) THEN <<>>
    ELSE IF ~InsideRoot(resolve(root, relative_path), root) THEN <<>>
    ELSE <<resolve(root, relative_path)>>

\* get_file_by_id as the handlers call it, for a file id that is one plain
\* name: the reviewed copy when it exists, else the file under the data
\* root, else None
get_file_by_id(d, file_id) ==
    FindFile(d, <<data_root>>, <<file_id>>, <<_get_reviewed_root>>)

read_jsonl(d, path) == d[path]

\* writer.py 162-182
compute_reviewed_path(source_path) ==
    LET output_root == _get_reviewed_root
        under_data == relative_to(source_path, <<data_root>>)
        under_output == relative_to(source_path, output_root)
        relative_path == IF under_data # <<>> THEN under_data[1]
                         ELSE IF under_output # <<>> THEN under_output[1]
                         ELSE <<source_path[Len(source_path)]>>
    IN output_root \o relative_path

\* the completed write: the target holds exactly the entries given
write_jsonl_atomic(d, path, entries) == Put(d, path, entries)

\* mutant: the working copy is written over the file that was read
write_working_copy_InPlace(d, source_path, entries) == write_jsonl_atomic(d, source_path, entries)

write_working_copy(d, source_path, entries) ==
    write_jsonl_atomic(d, compute_reviewed_path(source_path), entries)

\* ------------------------------------------------------------ propagation

_get_message_ts(message) ==
    IF IsDict(message) /\ Has(message, "ts_ms") THEN <<message.ts_ms>> ELSE <<>>

EntryId(entry) == IF Has(entry, "id") THEN entry.id ELSE ""
RoleOf(msg) == IF Has(msg, "role") THEN Str(msg.role) ELSE None
ContextOf(entry) == IF Has(entry, "context") THEN entry.context ELSE <<>>
MessageOf(entry) == IF Has(entry, "message") THEN entry.message ELSE EmptyDict

\* mutant: a message that is no dict counts as a match
TsMatches_NoDictCheck(msg, ts_ms) == IsDict(msg) => (Has(msg, "ts_ms") /\ msg.ts_ms = ts_ms)

\* does msg carry ts_ms = ts (msg.get("ts_ms") == ts_ms on a dict)
TsMatches(msg, ts_ms) == IsDict(msg) /\ Has(msg, "ts_ms") /\ msg.ts_ms = ts_ms

\* mutant: the role is written and recorded also when it is already the new role
PropagateMain_NoRoleCheck(st, file_path, idx, ts_ms, new_role) ==
    LET entry == st.entry
        msg == MessageOf(entry)
    IN IF TsMatches(msg, ts_ms)
       THEN LET e2 == Put(entry, "message", Put(msg, "role", new_role))
            IN [entry |-> e2,
                s |-> record_change(st.s, file_path, idx, EntryId(e2), <<"message", "role">>, RoleOf(msg), Str(new_role), e2),
                modified |-> TRUE]
       ELSE st

\* lines 147-162: the main message of one candidate; st = [entry, s, modified]
PropagateMain(st, file_path, idx, ts_ms, new_role) ==
    LET entry == st.entry
        msg == MessageOf(entry)
    IN IF TsMatches(msg, ts_ms) /\ RoleOf(msg) # Str(new_role)
       THEN LET e2 == Put(entry, "message", Put(msg, "role", new_role))
            IN [entry |-> e2,
                s |-> record_change(st.s, file_path, idx, EntryId(e2), <<"message", "role">>, RoleOf(msg), Str(new_role), e2),
                modified |-> TRUE]
       ELSE st

\* mutant: the propagation looks at main messages only
PropagateContext_Skips(st, file_path, idx, ts_ms, new_role, ctx_idx) == st

\* mutant: each context change is stored in a copy of the candidate made
\* before the change, the candidate the loop goes on with does not have it
RECURSIVE PropagateContext_Uncoalesced(_, _, _, _, _, _)
PropagateContext_Uncoalesced(st, file_path, idx, ts_ms, new_role, ctx_idx) ==
    LET context == ContextOf(st.entry)
    IN IF ctx_idx >= Len(context) THEN st
       ELSE LET ctx_msg == context[ctx_idx + 1]
                st2 == IF TsMatches(ctx_msg, ts_ms) /\ RoleOf(ctx_msg) # Str(new_role)
                       THEN LET e2 == Put(st.entry, "context", [context EXCEPT ![ctx_idx + 1] = Put(ctx_msg, "role", new_role)])
                            IN [entry |-> st.entry,
                                s |-> record_change(st.s, file_path, idx, EntryId(e2), <<"context", IntToStr(ctx_idx), "role">>, RoleOf(ctx_msg), Str(new_role), e2),
                                modified |-> TRUE]
                       ELSE st
            IN PropagateContext_Uncoalesced(st2, file_path, idx, ts_ms, new_role, ctx_idx + 1)

\* lines 164-180: the context messages of one candidate, from ctx_idx on
RECURSIVE PropagateContext(_, _, _, _, _, _)
PropagateContext(st, file_path, idx, ts_ms, new_role, ctx_idx) ==
    LET context == ContextOf(st.entry)
    IN IF ctx_idx >= Len(context) THEN st
       ELSE LET ctx_msg == context[ctx_idx + 1]
                st2 == IF TsMatches(ctx_msg, ts_ms) /\ RoleOf(ctx_msg) # Str(new_role)
                       THEN LET e2 == Put(st.entry, "context", [context EXCEPT ![ctx_idx + 1] = Put(ctx_msg, "role", new_role)])
                            IN [entry |-> e2,
                                s |-> record_change(st.s, file_path, idx, EntryId(e2), <<"context", IntToStr(ctx_idx), "role">>, RoleOf(ctx_msg), Str(new_role), e2),
                                modified |-> TRUE]
                       ELSE st
            IN PropagateContext(st2, file_path, idx, ts_ms, new_role, ctx_idx + 1)

\* lines 136-183: the loop over the entries, from idx on; acc = [s, synced_count]
RECURSIVE PropagateFrom(_, _, _, _, _, _, _)
PropagateFrom(acc, file_path, entries, source_index, ts_ms, new_role, idx) ==
    IF idx >= Len(entries) THEN acc
    ELSE IF idx = source_index
         THEN PropagateFrom(acc, file_path, entries, source_index, ts_ms, new_role, idx + 1)
    ELSE LET unsaved == get_unsaved_entry(acc.s, file_path, idx)
             entry == IF unsaved = <<>> THEN entries[idx + 1] ELSE unsaved[1]
             st0 == [entry |-> entry, s |-> acc.s, modified |-> FALSE]
             st1 == PropagateMain(st0, file_path, idx, ts_ms, new_role)
             st2 == PropagateContext(st1, file_path, idx, ts_ms, new_role, 0)
             acc2 == [s |-> st2.s,
                      synced_count |-> acc.synced_count + (IF st2.modified THEN 1 ELSE 0)]
         IN PropagateFrom(acc2, file_path, entries, source_index, ts_ms, new_role, idx + 1)

\* mutant: the source record is counted with the records synced
_propagate_role_change_CountsSource(s, file_path, entries, source_index, ts_ms, new_role) ==
    LET r == PropagateFrom([s |-> s, synced_count |-> 0], file_path, entries, source_index, ts_ms, new_role, 0)
    IN [r EXCEPT !.synced_count = @ + 1]

\* mutant: the run also rewrites the overrides the session holds for other
\* collections
_propagate_role_change_AllCollections(s, file_path, entries, source_index, ts_ms, new_role) ==
    LET r == PropagateFrom([s |-> s, synced_count |-> 0], file_path, entries, source_index, ts_ms, new_role, 0)
        u == r.s.unsaved_changes
    IN [r EXCEPT !.s = Session([k \in DOMAIN u |->
                                  IF k[1] # file_path /\ Has(u[k], "message") /\ TsMatches(u[k].message, ts_ms)
                                  THEN Put(u[k], "message", Put(u[k].message, "role", new_role))
                                  ELSE u[k]],
                               r.s.undo_stack)]

\* returns [s |-> the session after the run, synced_count |-> the count returned]
_propagate_role_change(s, file_path, entries, source_index, ts_ms, new_role) ==
    PropagateFrom([s |-> s, synced_count |-> 0], file_path, entries, source_index, ts_ms, new_role, 0)

\* ------------------------------------------------------------ patch_entry

\* str.split(","), str.strip() and the list comprehension of line 271
IsSpace(c) == c \in {" ", "\t", "\n"}

RECURSIVE split(_, _)
split(chars, sep) ==
    IF \A i \in 1..Len(chars) : chars[i] # sep THEN <<chars>>
    ELSE LET i == CHOOSE j \in 1..Len(chars) :
                      chars[j] = sep /\ \A k \in 1..(j - 1) : chars[k] # sep
         IN <<SubSeq(chars, 1, i - 1)>> \o split(SubSeq(chars, i + 1, Len(chars)), sep)

RECURSIVE strip(_)
strip(chars) ==
    IF chars = <<>> THEN chars
    ELSE IF IsSpace(Head(chars)) THEN strip(Tail(chars))
    ELSE IF IsSpace(chars[Len(chars)]) THEN strip(SubSeq(chars, 1, Len(chars) - 1))
    ELSE chars

RECURSIVE StripNonEmpty(_)
StripNonEmpty(parts) ==
    IF parts = <<>> THEN <<>>
    ELSE (IF strip(Head(parts)) # <<>> THEN <<strip(Head(parts))>> ELSE <<>>)
         \o StripNonEmpty(Tail(parts))

\* mutant: the parts are neither trimmed nor filtered
SlotValue_SplitsOnly(slot_name, value) ==
    IF slot_name = "hair_removal_areas" /\ value[1] = "text" /\ value[2] # <<>>
    THEN List(split(value[2], ","))
    ELSE value

\* lines 270-271: the value stored for a slot
SlotValue(slot_name, value) ==
    IF slot_name = "hair_removal_areas" /\ value[1] = "text" /\ value[2] # <<>>
    THEN List(StripNonEmpty(split(value[2], ",")))
    ELSE value

\* The entry a handler holds is the very object the session maps the position
\* to whenever the session has the position (it was fetched from the session
\* or stored by record_change): a write to the entry that no record_change
\* follows still shows in the session.
SyncAlias(st, file_path, index) ==
    IF <<file_path, index>> \in DOMAIN st.s.unsaved_changes
    THEN [st EXCEPT !.s = Session(Put(st.s.unsaved_changes, <<file_path, index>>, st.entry), st.s.undo_stack)]
    ELSE st

DictGet(d, k) == IF Has(d, k) THEN d[k] ELSE None

\* "gold" (and gold[sub]) created when absent: lines 264-267, 285-288, 303-304
LazyGold(st, file_path, index, sub) ==
    LET e1 == IF Has(st.entry, "gold") THEN st.entry ELSE Put(st.entry, "gold", EmptyDict)
        e2 == IF sub = "" \/ Has(e1.gold, sub) THEN e1
              ELSE Put(e1, "gold", Put(e1.gold, sub, EmptyDict))
    IN SyncAlias([st EXCEPT !.entry = e2], file_path, index)

\* lines 268-282 (sub = "slots") and 289-300 (sub = "evidence"): items is the
\* dict's items() in order, a sequence of <<name, value>>
RECURSIVE ApplyItems(_, _, _, _, _, _)
ApplyItems(st, file_path, index, sub, items, i) ==
    IF i > Len(items) THEN st
    ELSE LET slot_name == items[i][1]
             value == IF sub = "slots" THEN SlotValue(slot_name, items[i][2]) ELSE items[i][2]
             old_value == DictGet(st.entry.gold[sub], slot_name)
             e2 == Put(st.entry, "gold", Put(st.entry.gold, sub, Put(st.entry.gold[sub], slot_name, value)))
             s2 == record_change(st.s, file_path, index, EntryId(e2), <<"gold", sub, slot_name>>, old_value, value, e2)
         IN ApplyItems([st EXCEPT !.entry = e2, !.s = s2], file_path, index, sub, items, i + 1)

\* lines 263-282
ApplySlots(st, file_path, index, update) ==
    IF ~Has(update, "slots") THEN st
    ELSE ApplyItems(LazyGold(st, file_path, index, "slots"), file_path, index, "slots", update.slots, 1)

\* lines 284-300
ApplyEvidence(st, file_path, index, update) ==
    IF ~Has(update, "evidence") THEN st
    ELSE ApplyItems(LazyGold(st, file_path, index, "evidence"), file_path, index, "evidence", update.evidence, 1)

\* lines 302-315
ApplyIntentions(st, file_path, index, update) ==
    IF ~Has(update, "intentions") THEN st
    ELSE LET st1 == LazyGold(st, file_path, index, "")
             old_value == DictGet(st1.entry.gold, "intentions")
             e2 == Put(st1.entry, "gold", Put(st1.entry.gold, "intentions", List(update.intentions)))
         IN [st1 EXCEPT !.entry = e2,
                        !.s = record_change(st1.s, file_path, index, EntryId(e2), <<"gold", "intentions">>, old_value, List(update.intentions), e2)]

\* lines 317-328
ApplyQaHint(st, file_path, index, update) ==
    IF ~Has(update, "qa_hint") THEN st
    ELSE LET old_value == IF Has(st.entry, "qa_hint") THEN Str(st.entry.qa_hint) ELSE None
             e2 == Put(st.entry, "qa_hint", update.qa_hint)
         IN [st EXCEPT !.entry = e2,
                       !.s = record_change(st.s, file_path, index, EntryId(e2), <<"qa_hint">>, old_value, Str(update.qa_hint), e2)]

ReviewedOf(entry) == IF Has(entry, "reviewed") THEN entry.reviewed ELSE FALSE

\* lines 330-341
ApplyReviewed(st, file_path, index, update) ==
    IF ~Has(update, "reviewed") THEN st
    ELSE LET old_value == ReviewedOf(st.entry)
             e2 == Put(st.entry, "reviewed", update.reviewed)
         IN [st EXCEPT !.entry = e2,
                       !.s = record_change(st.s, file_path, index, EntryId(e2), <<"reviewed">>, Bool(old_value), Bool(update.reviewed), e2)]

\* the records of the collection as a reader sees them: override, else disk
EffectiveView(s, file_path, entries) ==
    [i \in 1..Len(entries) |->
        IF <<file_path, i - 1>> \in DOMAIN s.unsaved_changes
        THEN s.unsaved_changes[<<file_path, i - 1>>] ELSE entries[i]]

\* one call of _propagate_role_change from patch_entry (lines 361-370 and
\* 389-398), logged with what it saw and what it returned
Propagate(st, file_path, entries, index, message, new_role) ==
    LET ts_ms == _get_message_ts(message)
    IN IF ts_ms = <<>> THEN st
       ELSE LET r == _propagate_role_change(st.s, file_path, entries, index, ts_ms[1], new_role)
            IN [st EXCEPT !.s = r.s,
                          !.synced_count = st.synced_count + r.synced_count,
                          !.runs = Append(st.runs,
                              [source_index |-> index, ts_ms |-> ts_ms[1], new_role |-> new_role,
                               view |-> EffectiveView(st.s, file_path, entries),
                               returned |-> r.synced_count])]

\* lines 346-370
ApplyMessageRole(st, file_path, entries, index, update) ==
    IF ~Has(update, "message_role") THEN st
    ELSE LET e1 == IF ~Has(st.entry, "message") \/ ~IsDict(st.entry.message)
                   THEN Put(st.entry, "message", [role |-> update.message_role, text |-> "", ts_ms |-> 0])
                   ELSE st.entry
             old_value == RoleOf(e1.message)
             e2 == Put(e1, "message", Put(e1.message, "role", update.message_role))
             st2 == [st EXCEPT !.entry = e2,
                               !.s = record_change(st.s, file_path, index, EntryId(e2), <<"message", "role">>, old_value, Str(update.message_role), e2)]
         IN Propagate(st2, file_path, entries, index, e2.message, update.message_role)

\* mutant: an update that fails the check raises (an IndexError) instead
SkipContextUpdate_Raises(st) == [st EXCEPT !.ok = FALSE]

\* line 376: an update that fails the check is passed over, nothing changes
SkipContextUpdate(st) == st

\* lines 373-398: the context updates from the i-th on.  A context entry that
\* is not a dict has no .get: the handler raises there (st.ok = FALSE) with
\* the session as the earlier writes left it.
RECURSIVE ApplyContextUpdates(_, _, _, _, _, _)
ApplyContextUpdates(st, file_path, entries, index, updates, i) ==
    IF i > Len(updates) \/ ~st.ok THEN st
    ELSE LET ctx_update == updates[i]
             context == ContextOf(st.entry)
             applies == /\ Has(ctx_update, "index")
                        /\ Has(ctx_update, "role") /\ ctx_update.role # ""
                        /\ 0 <= ctx_update.index /\ ctx_update.index < Len(context)
         IN IF ~applies
            THEN ApplyContextUpdates(SkipContextUpdate(st), file_path, entries, index, updates, i + 1)
            ELSE LET idx == ctx_update.index
                     new_role == ctx_update.role
                     ctx_msg == context[idx + 1]
                 IN IF ~IsDict(ctx_msg) THEN [st EXCEPT !.ok = FALSE]
                    ELSE LET e2 == Put(st.entry, "context", [context EXCEPT ![idx + 1] = Put(ctx_msg, "role", new_role)])
                             st2 == [st EXCEPT !.entry = e2,
                                               !.s = record_change(st.s, file_path, index, EntryId(e2), <<"context", IntToStr(idx), "role">>, RoleOf(ctx_msg), Str(new_role), e2)]
                             st3 == Propagate(st2, file_path, entries, index, e2.context[idx + 1], new_role)
                         IN ApplyContextUpdates(st3, file_path, entries, index, updates, i + 1)

\* mutant: the handler starts from the disk record and forgets the override
CurrentEntry_FromDisk(s, file_path, entries, index) == entries[index + 1]

\* lines 257-260: the current entry, from the session or from disk
CurrentEntry(s, file_path, entries, index) ==
    LET unsaved == get_unsaved_entry(s, file_path, index)
    IN IF unsaved = <<>> THEN entries[index + 1] ELSE unsaved[1]

\* mutant: the roles are applied before the other axes
PatchBody_RolesFirst(s, file_path, entries, index, update) ==
    LET st0 == [entry |-> CurrentEntry(s, file_path, entries, index), s |-> s,
                synced_count |-> 0, runs |-> <<>>, ok |-> TRUE]
        st1 == ApplyMessageRole(st0, file_path, entries, index, update)
        st2 == IF Has(update, "context_updates")
               THEN ApplyContextUpdates(st1, file_path, entries, index, update.context_updates, 1)
               ELSE st1
        st3 == ApplySlots(st2, file_path, index, update)
        st4 == ApplyEvidence(st3, file_path, index, update)
        st5 == ApplyIntentions(st4, file_path, index, update)
        st6 == ApplyQaHint(st5, file_path, index, update)
    IN ApplyReviewed(st6, file_path, index, update)

\* lines 257-398: the body of patch_entry on a found file and entry
PatchBody(s, file_path, entries, index, update) ==
    LET st0 == [entry |-> CurrentEntry(s, file_path, entries, index), s |-> s,
                synced_count |-> 0, runs |-> <<>>, ok |-> TRUE]
        st1 == ApplySlots(st0, file_path, index, update)
        st2 == ApplyEvidence(st1, file_path, index, update)
        st3 == ApplyIntentions(st2, file_path, index, update)
        st4 == ApplyQaHint(st3, file_path, index, update)
        st5 == ApplyReviewed(st4, file_path, index, update)
        st6 == ApplyMessageRole(st5, file_path, entries, index, update)
    IN IF Has(update, "context_updates")
       THEN ApplyContextUpdates(st6, file_path, entries, index, update.context_updates, 1)
       ELSE st6

\* --------------------------------------------------------------- handlers

\* no write_jsonl_atomic is followed step by step
WriterIdle == fs = EmptyDict /\ wr = [pc |-> "idle"]

\* what the log keeps of one request: the request, the response, the path the
\* file resolved to and the records a reader saw before the request
Request(op, file_id, index, update, status, message, synced_count, has_unsaved, runs, path, before) ==
    [op |-> op, file_id |-> file_id, index |-> index, update |-> update,
     status |-> status, message |-> message, synced_count |-> synced_count,
     has_unsaved |-> has_unsaved, runs |-> runs, path |-> path, before |-> before]

NotFound(op, file_id, index, update) ==
    Request(op, file_id, index, update, 404, "not found", 0, FALSE, <<>>, <<>>, <<>>)

\* mutant: the handler works on the session as it was when its request
\* arrived (it read the session, was suspended, and goes on later)
TheSession_AtArrival ==
    IF Len(requests) < Len(loop) THEN loop[Len(requests) + 1].seen
    ELSE Session(unsaved_changes, undo_stack)

TheSession == Session(unsaved_changes, undo_stack)

\* mutant: the patch is written through to the working copy
patch_entry_WritesThrough(file_id, index, update) ==
    /\ Len(requests) < MaxRequests
    /\ UNCHANGED <<settings, loop, writerVars>>
    /\ get_file_by_id(disk, file_id) # <<>>
    /\ LET path == get_file_by_id(disk, file_id)[1]
           entries == read_jsonl(disk, path)
       IN /\ 0 <= index /\ index < Len(entries)
          /\ LET st == PatchBody(TheSession, path, entries, index, update)
             IN /\ disk' = write_working_copy(disk, path, EffectiveView(st.s, path, entries))
                /\ unsaved_changes' = st.s.unsaved_changes
                /\ undo_stack' = st.s.undo_stack
                /\ requests' = Append(requests,
                      Request("patch", file_id, index, update, IF st.ok THEN 200 ELSE 500, "",
                              IF st.ok THEN st.synced_count ELSE 0, st.ok, st.runs, path,
                              EffectiveView(TheSession, path, entries)))

\* PATCH /{file_id}/entries/{index}
patch_entry(file_id, index, update) ==
    /\ Len(requests) < MaxRequests
    /\ UNCHANGED <<disk, settings, loop, writerVars>>
    /\ LET file_info == get_file_by_id(disk, file_id)
       IN IF file_info = <<>>
          THEN /\ requests' = Append(requests, NotFound("patch", file_id, index, update))
               /\ UNCHANGED <<unsaved_changes, undo_stack>>
          ELSE LET path == file_info[1]
                   entries == read_jsonl(disk, path)
               IN IF index < 0 \/ index >= Len(entries)
                  THEN /\ requests' = Append(requests, NotFound("patch", file_id, index, update))
                       /\ UNCHANGED <<unsaved_changes, undo_stack>>
                  ELSE LET st == PatchBody(TheSession, path, entries, index, update)
                       IN /\ unsaved_changes' = st.s.unsaved_changes
                          /\ undo_stack' = st.s.undo_stack
                          /\ requests' = Append(requests,
                                Request("patch", file_id, index, update,
                                        IF st.ok THEN 200 ELSE 500, "",
                                        IF st.ok THEN st.synced_count ELSE 0,
                                        st.ok, st.runs, path,
                                        EffectiveView(TheSession, path, entries)))

\* mutant: the flag is set, not toggled
ToggleReviewed_SetsTrue(entry) == Put(entry, "reviewed", TRUE)

\* lines 452-453
ToggleReviewed(entry) == Put(entry, "reviewed", ~ReviewedOf(entry))

\* mutant: the toggle writes the disk entries, without the overrides
_merge_session_entries_DiskOnly(s, file_path, disk_entries) == disk_entries

_merge_session_entries(s, file_path, disk_entries) ==
    [idx \in 1..Len(disk_entries) |->
        LET session_entry == get_unsaved_entry(s, file_path, idx - 1)
        IN IF session_entry # <<>> THEN session_entry[1] ELSE disk_entries[idx]]

\* mutant: the overrides are dropped whether or not the write succeeded
AfterWrite_MarksSaved(s, file_path, write_ok) == mark_saved(s, file_path)

\* lines 470-481 and 516-524: mark_saved runs only after write_working_copy
\* has returned; when the write raises, the session stays as it is
AfterWrite(s, file_path, write_ok) ==
    IF write_ok THEN mark_saved(s, file_path) ELSE s

\* POST /{file_id}/entries/{index}/reviewed; write_ok: whether the write of
\* the working copy succeeds
MarkReviewed(file_id, index, write_ok) ==
    /\ Len(requests) < MaxRequests
    /\ UNCHANGED <<settings, loop, writerVars>>
    /\ LET file_info == get_file_by_id(disk, file_id)
       IN IF file_info = <<>>
          THEN /\ requests' = Append(requests, NotFound("reviewed", file_id, index, EmptyDict))
               /\ UNCHANGED <<disk, unsaved_changes, undo_stack>>
          ELSE LET path == file_info[1]
                   entries == read_jsonl(disk, path)
               IN IF index < 0 \/ index >= Len(entries)
                  THEN /\ requests' = Append(requests, NotFound("reviewed", file_id, index, EmptyDict))
                       /\ UNCHANGED <<disk, unsaved_changes, undo_stack>>
                  ELSE LET entry0 == CurrentEntry(TheSession, path, entries, index)
                           old_value == ReviewedOf(entry0)
                           entry == ToggleReviewed(entry0)
                           s1 == record_change(TheSession, path, index, EntryId(entry), <<"reviewed">>, Bool(old_value), Bool(entry.reviewed), entry)
                           merged == _merge_session_entries(s1, path, entries)
                           merged_entries == [merged EXCEPT ![index + 1] = entry]
                           s2 == AfterWrite(s1, path, write_ok)
                       IN /\ disk' = IF write_ok THEN write_working_copy(disk, path, merged_entries) ELSE disk
                          /\ unsaved_changes' = s2.unsaved_changes
                          /\ undo_stack' = s2.undo_stack
                          /\ requests' = Append(requests,
                                Request("reviewed", file_id, index, EmptyDict,
                                        IF write_ok THEN 200 ELSE 500,
                                        IF write_ok THEN "" ELSE "Failed to save",
                                        0, FALSE, <<>>, path,
                                        EffectiveView(TheSession, path, entries)))

mark_reviewed(file_id, index) == MarkReviewed(file_id, index, TRUE)

\* mutant: save-all writes the entries as read from disk
ApplyUnsaved_DiskOnly(s, file_path, entries) == entries

\* lines 509-513: the overrides of the file laid over the entries read
ApplyUnsaved(s, file_path, entries) ==
    [i \in 1..Len(entries) |->
        IF <<file_path, i - 1>> \in DOMAIN s.unsaved_changes
        THEN s.unsaved_changes[<<file_path, i - 1>>] ELSE entries[i]]

\* POST /{file_id}/save
SaveFile(file_id, write_ok) ==
    /\ Len(requests) < MaxRequests
    /\ UNCHANGED <<settings, loop, writerVars>>
    /\ LET file_info == get_file_by_id(disk, file_id)
       IN IF file_info = <<>>
          THEN /\ requests' = Append(requests, NotFound("save", file_id, 0 - 1, EmptyDict))
               /\ UNCHANGED <<disk, unsaved_changes, undo_stack>>
          ELSE LET path == file_info[1]
               IN IF ~has_unsaved_changes(TheSession, path)
                  THEN /\ requests' = Append(requests,
                             Request("save", file_id, 0 - 1, EmptyDict, 200, "No changes to save", 0, FALSE, <<>>, path,
                                     EffectiveView(TheSession, path, read_jsonl(disk, path))))
                       /\ UNCHANGED <<disk, unsaved_changes, undo_stack>>
                  ELSE LET entries == read_jsonl(disk, path)
                           merged == ApplyUnsaved(TheSession, path, entries)
                           s2 == AfterWrite(TheSession, path, write_ok)
                       IN /\ disk' = IF write_ok THEN write_working_copy(disk, path, merged) ELSE disk
                          /\ unsaved_changes' = s2.unsaved_changes
                          /\ undo_stack' = s2.undo_stack
                          /\ requests' = Append(requests,
                                Request("save", file_id, 0 - 1, EmptyDict,
                                        IF write_ok THEN 200 ELSE 500,
                                        IF write_ok THEN "Saved" ELSE "", 0, FALSE, <<>>, path,
                                        EffectiveView(TheSession, path, entries)))

save_file(file_id) == SaveFile(file_id, TRUE)

\* --------------------------------------------------------------- fixtures

Msg(role, text, ts_ms) == [role |-> role, text |-> text, ts_ms |-> ts_ms]

\* the scenario of the role sync: records 0 and 1 share the message of
\* ts_ms 1000, record 1 also quotes it in its context; record 2 does not
ScenarioFile ==
    << [id |-> "e0", message |-> Msg("client", "hi", 1000),
        context |-> << Msg("brand", "welcome", 500) >>,
        gold |-> [slots |-> [treatment |-> None], evidence |-> [treatment |-> Str("hi")]],
        qa_hint |-> "check", reviewed |-> FALSE],
       [id |-> "e1", message |-> Msg("client", "hi", 1000),
        context |-> << Msg("client", "hi", 1000), Msg("brand", "welcome", 500) >>,
        gold |-> [slots |-> EmptyDict, evidence |-> EmptyDict], reviewed |-> TRUE],
       [id |-> "e2", message |-> Msg("client", "bye", 2000), gold |-> [slots |-> EmptyDict]] >>

\* a thread: each record quotes the earlier messages in its context
ThreadFile ==
    << [id |-> "t0", message |-> Msg("client", "q", 1000), context |-> <<>>,
        gold |-> [slots |-> EmptyDict, evidence |-> EmptyDict]],
       [id |-> "t1", message |-> Msg("brand", "a", 2000),
        context |-> << Msg("client", "q", 1000) >>,
        gold |-> [slots |-> EmptyDict, evidence |-> EmptyDict], qa_hint |-> "late"],
       [id |-> "t2", message |-> Msg("client", "thanks", 3000),
        context |-> << Msg("client", "q", 1000), Msg("brand", "a", 2000) >>,
        gold |-> [slots |-> EmptyDict, evidence |-> EmptyDict]] >>

\* legacy data: messages that are no dict, that are missing, that have no ts_ms
LegacyFile ==
    << [id |-> "l0", message |-> [raw |-> "hello"], reviewed |-> FALSE],
       [id |-> "l1", context |-> << [raw |-> "old"], [role |-> "client", text |-> "x"] >>,
        gold |-> EmptyDict],
       [id |-> "l2", message |-> [role |-> "client", text |-> "y"],
        context |-> << [role |-> "brand", text |-> "z"] >>] >>

Fixtures == {ScenarioFile, ThreadFile, LegacyFile}

FileId == "a.jsonl"

\* the patches of the role and save model
RoleUpdates ==
    { [message_role |-> "brand"],
      [message_role |-> "client"],
      [context_updates |-> << [index |-> 0, role |-> "brand"] >>],
      [message_role |-> "brand", context_updates |-> << [index |-> 0, role |-> "client"] >>] }

Positions(d) == 0..(Len(d[<<data_root, FileId>>]) - 1)

\* ------------------------------------------------- the role and save model

Init ==
    /\ \E file \in Fixtures : disk = [p \in {<<data_root, FileId>>} |-> file]
    /\ unsaved_changes = EmptyDict
    /\ undo_stack = <<>>
    /\ requests = <<>>
    /\ WriterIdle
    /\ loop = <<>>
    /\ settings = DefaultSettings

Next ==
    \/ \E index \in Positions(disk), update \in RoleUpdates : patch_entry(FileId, index, update)
    \/ \E index \in Positions(disk) : mark_reviewed(FileId, index)
    \/ save_file(FileId)

Spec == Init /\ [][Next]_vars

\* ------------------------------------------------------- the patch model

\* two records of one message; the first has no gold, qa_hint or reviewed key
PatchFile ==
    << [id |-> "p0", message |-> Msg("client", "hi", 1000),
        context |-> << Msg("brand", "welcome", 500) >>],
       [id |-> "p1", message |-> Msg("brand", "bye", 2000),
        context |-> << Msg("client", "hi", 1000) >>,
        gold |-> [slots |-> [treatment |-> Text(<<"w">>)], evidence |-> EmptyDict],
        qa_hint |-> "old", reviewed |-> FALSE] >>

\* patches of every axis, of no axis, and with context updates to skip
PatchUpdates ==
    { EmptyDict,
      [slots |-> <<>>],
      [slots |-> << <<"treatment", Text(<<"l">>)>>, <<"hair_removal_areas", Text(<<"a", ",", " ", "b">>)>> >>],
      [slots |-> << <<"treatment", None>> >>, evidence |-> << <<"treatment", Str("said so")>> >>],
      [intentions |-> <<"booking">>, qa_hint |-> "ask", reviewed |-> TRUE],
      [slots |-> << <<"treatment", Text(<<"x">>)>> >>, evidence |-> << <<"treatment", None>> >>,
       intentions |-> <<>>, qa_hint |-> "", reviewed |-> FALSE, message_role |-> "brand",
       context_updates |-> << [index |-> 0, role |-> "client"] >>],
      [context_updates |-> << [index |-> 5, role |-> "brand"], [index |-> 0 - 1, role |-> "brand"],
                              [index |-> 0, role |-> ""], [role |-> "brand"] >>] }

InitPatch ==
    /\ disk = [p \in {<<data_root, FileId>>} |-> PatchFile]
    /\ unsaved_changes = EmptyDict
    /\ undo_stack = <<>>
    /\ requests = <<>>
    /\ WriterIdle
    /\ loop = <<>>
    /\ settings = DefaultSettings

\* position Len is one past the end: the handler answers 404
NextPatch ==
    \/ \E index \in 0..Len(PatchFile), update \in PatchUpdates : patch_entry(FileId, index, update)
    \/ save_file(FileId)

SpecPatch == InitPatch /\ [][NextPatch]_vars

\* ------------------------------------------------- patches and reads

\* GET /{file_id}/entries/{index}: the log keeps the entry returned too
get_entry(file_id, index) ==
    /\ Len(requests) < MaxRequests
    /\ UNCHANGED <<disk, unsaved_changes, undo_stack, settings, loop, writerVars>>
    /\ LET file_info == get_file_by_id(disk, file_id)
       IN IF file_info = <<>>
          THEN requests' = Append(requests, NotFound("get", file_id, index, EmptyDict))
          ELSE LET path == file_info[1]
                   entries == read_jsonl(disk, path)
               IN IF index < 0 \/ index >= Len(entries)
                  THEN requests' = Append(requests, NotFound("get", file_id, index, EmptyDict))
                  ELSE LET unsaved == get_unsaved_entry(TheSession, path, index)
                           entry == IF unsaved # <<>> /\ unsaved[1] # EmptyDict
                                    THEN unsaved[1] ELSE entries[index + 1]
                       IN requests' = Append(requests,
                             Put(Request("get", file_id, index, EmptyDict, 200, "", 0,
                                         unsaved # <<>>, <<>>, path,
                                         EffectiveView(TheSession, path, entries)),
                                 "entry", entry))

NextGet ==
    \/ \E index \in 0..Len(PatchFile), update \in PatchUpdates : patch_entry(FileId, index, update)
    \/ \E index \in 0..Len(PatchFile) : get_entry(FileId, index)

SpecGet == InitPatch /\ [][NextGet]_vars

\* ------------------------------------- propagation to several messages

\* Records that hold the message of ts_ms 1000 more than once, one copy
\* already with the other role; a record whose main message and first
\* context entry are no dicts, and a record without a message, both quoting
\* the message of ts_ms 1000 in their context.
InitSync ==
    /\ disk = [p \in {<<data_root, FileId>>} |->
         << [id |-> "s0", message |-> Msg("client", "hi", 1000),
             context |-> << Msg("brand", "welcome", 500) >>],
            [id |-> "s1", message |-> Msg("client", "hi", 1000),
             context |-> << Msg("client", "hi", 1000), Msg("brand", "welcome", 500),
                            Msg("brand", "hi", 1000) >>],
            [id |-> "s2", message |-> [raw |-> "legacy"],
             context |-> << [raw |-> "old"], Msg("client", "hi", 1000) >>],
            [id |-> "s3",
             context |-> << Msg("client", "hi", 1000), Msg("client", "hi", 1000) >>] >>]
    /\ unsaved_changes = EmptyDict
    /\ undo_stack = <<>>
    /\ requests = <<>>
    /\ WriterIdle
    /\ loop = <<>>
    /\ settings = DefaultSettings

NextSync ==
    \/ \E index \in 0..3, update \in RoleUpdates : patch_entry(FileId, index, update)
    \/ save_file(FileId)

SpecSync == InitSync /\ [][NextSync]_vars

\* ------------------------------- two collections, writes that may fail

OtherFileId == "b.jsonl"

\* the second collection
OtherFile ==
    << [id |-> "o0", message |-> Msg("client", "hi", 1000), reviewed |-> TRUE],
       [id |-> "o1", message |-> Msg("brand", "hello", 1000), qa_hint |-> "o"] >>

FileIds == {FileId, OtherFileId}

FileUpdates == { [qa_hint |-> "ask"], [message_role |-> "brand"] }

InitFiles ==
    /\ disk = [p \in {<<data_root, FileId>>, <<data_root, OtherFileId>>} |->
                 IF p[2] = FileId THEN PatchFile ELSE OtherFile]
    /\ unsaved_changes = EmptyDict
    /\ undo_stack = <<>>
    /\ requests = <<>>
    /\ WriterIdle
    /\ loop = <<>>
    /\ settings = DefaultSettings

\* write_ok = FALSE: write_working_copy raises (the disk is full, the reviewed
\* directory cannot be written)
NextFiles ==
    \/ \E file_id \in FileIds, index \in 0..1, update \in FileUpdates : patch_entry(file_id, index, update)
    \/ \E file_id \in FileIds, index \in 0..1, write_ok \in BOOLEAN : MarkReviewed(file_id, index, write_ok)
    \/ \E file_id \in FileIds, write_ok \in BOOLEAN : SaveFile(file_id, write_ok)

SpecFiles == InitFiles /\ [][NextFiles]_vars

\* ------------------------------------------- reviewed output directories

\* GOLD_EDITOR_REVIEWED_OUTPUT_DIR: not set, a directory beside the data
\* root, the data root itself, a directory inside the data root
ReviewedOutputDirs == { <<>>, << <<"out">> >>, << <<data_root>> >>, << <<data_root, "reviewed">> >> }

\* the collection as found at start: the original, with or without a copy
\* that an earlier run of the editor left at the reviewed location
InitRoots ==
    /\ settings \in [reviewed_output_dir : ReviewedOutputDirs]
    /\ \E copied \in BOOLEAN :
          disk = [p \in {<<data_root, FileId>>}
                         \cup (IF copied THEN {compute_reviewed_path(<<data_root, FileId>>)} ELSE {}) |->
                    IF p = <<data_root, FileId>> THEN PatchFile
                    ELSE [PatchFile EXCEPT ![1] = Put(@, "reviewed", TRUE)]]
    /\ unsaved_changes = EmptyDict
    /\ undo_stack = <<>>
    /\ requests = <<>>
    /\ WriterIdle
    /\ loop = <<>>

NextRoots ==
    \/ \E index \in 0..Len(PatchFile), update \in FileUpdates : patch_entry(FileId, index, update)
    \/ \E index \in 0..Len(PatchFile) : mark_reviewed(FileId, index)
    \/ save_file(FileId)
    \/ \E index \in 0..Len(PatchFile) : get_entry(FileId, index)

SpecRoots == InitRoots /\ [][NextRoots]_vars

\* ------------------------------------------------------------ list_entries

\* Texts are sequences of characters here; the slots of a record are the
\* sequence of <<name, value>> of its JSON object, a value is None, a text
\* or a boolean.
BOOL_SLOTS == {"has_contraindications", "is_first_time", "can_visit_center", "is_consultation"}

\* e.get("gold", {}).get("slots", {})
SlotsOf(e) == IF Has(e, "gold") /\ Has(e.gold, "slots") THEN e.gold.slots ELSE <<>>

\* slots.get(name): the value of the name, None without it
SlotGet(slots, name) ==
    IF \E i \in 1..Len(slots) : slots[i][1] = name
    THEN slots[CHOOSE i \in 1..Len(slots) : slots[i][1] = name][2]
    ELSE None

\* str.lower(), on the letters that occur
lower(chars) ==
    [i \in 1..Len(chars) |->
        CASE chars[i] = "H" -> "h" [] chars[i] = "T" -> "t" [] OTHER -> chars[i]]

\* part in text
Contains(text, part) ==
    \E i \in 0..(Len(text) - Len(part)) : SubSeq(text, i + 1, i + Len(part)) = part

\* str(v) of a slot value
StrOf(v) == IF v[1] = "bool" THEN (IF v[2] THEN <<"T", "r", "u", "e">> ELSE <<"F", "a", "l", "s", "e">>) ELSE v[2]

\* " ".join(parts)
RECURSIVE join(_)
join(parts) ==
    IF parts = <<>> THEN <<>>
    ELSE IF Len(parts) = 1 THEN parts[1]
    ELSE parts[1] \o <<" ">> \o join(Tail(parts))

\* the parts of the slot values that are not None, in the order of the object
RECURSIVE SlotParts(_)
SlotParts(slots) ==
    IF slots = <<>> THEN <<>>
    ELSE (IF slots[1][2] # None THEN <<StrOf(slots[1][2])>> ELSE <<>>) \o SlotParts(Tail(slots))

_get_searchable_text(entry) ==
    LET message == IF Has(entry, "message") THEN entry.message ELSE EmptyDict
        context == IF Has(entry, "context") THEN entry.context ELSE <<>>
    IN join(<<IF Has(message, "text") THEN message.text ELSE <<>>>>
            \o [i \in 1..Len(context) |-> IF Has(context[i], "text") THEN context[i].text ELSE <<>>]
            \o SlotParts(SlotsOf(entry))
            \o (IF Has(entry, "qa_hint") /\ entry.qa_hint # <<>> THEN <<entry.qa_hint>> ELSE <<>>))

\* does the record pass the filters that are switched on and the search
Passes(e, filter_non_null, filter_treatment, filter_bool_slots, filter_qa_hint, search) ==
    /\ filter_non_null => \E i \in 1..Len(SlotsOf(e)) : SlotsOf(e)[i][2] # None
    /\ filter_treatment => SlotGet(SlotsOf(e), "treatment") # None
    /\ filter_bool_slots => \E slot \in BOOL_SLOTS : SlotGet(SlotsOf(e), slot) # None
    /\ filter_qa_hint => (Has(e, "qa_hint") /\ e.qa_hint # <<>>)
    /\ search # <<>> => Contains(lower(_get_searchable_text(e)), lower(search))

\* the positions (from 1) of the records that pass, in order
RECURSIVE Filtered(_, _, _, _, _, _, _)
Filtered(all_entries, i, filter_non_null, filter_treatment, filter_bool_slots, filter_qa_hint, search) ==
    IF i > Len(all_entries) THEN <<>>
    ELSE (IF Passes(all_entries[i], filter_non_null, filter_treatment, filter_bool_slots, filter_qa_hint, search)
          THEN <<i>> ELSE <<>>)
         \o Filtered(all_entries, i + 1, filter_non_null, filter_treatment, filter_bool_slots, filter_qa_hint, search)

\* all_entries.index(entry), entry the object at place q: the first position
\* whose object equals it
ListIndex(all_entries, q) ==
    (CHOOSE i \in 1..Len(all_entries) :
        all_entries[i] = all_entries[q] /\ \A k \in 1..(i - 1) : all_entries[k] # all_entries[q]) - 1

\* for entry in page_entries: entry["_original_index"] = all_entries.index(entry);
\* the page holds the objects of all_entries, which are written in place
RECURSIVE AddOriginalIndices(_, _, _)
AddOriginalIndices(all_entries, page, j) ==
    IF j > Len(page) THEN all_entries
    ELSE AddOriginalIndices(
            [all_entries EXCEPT ![page[j]] = Put(@, "_original_index", ListIndex(all_entries, page[j]))],
            page, j + 1)

\* filtered[start:end]
Slice(seq, start, end) ==
    SubSeq(seq, start + 1, IF end < Len(seq) THEN end ELSE Len(seq))

\* GET /{file_id}/entries; places are the positions of the entries of the
\* page in the collection, kept for the properties only
list_entries(file_id, page, page_size, filter_non_null, filter_treatment, filter_bool_slots, filter_qa_hint, search) ==
    /\ requests = <<>>
    /\ UNCHANGED <<disk, unsaved_changes, undo_stack, settings, loop, writerVars>>
    /\ LET file_info == get_file_by_id(disk, file_id)
       IN IF file_info = <<>>
          THEN requests' = Append(requests, [op |-> "list", status |-> 404])
          ELSE LET all_entries == read_jsonl(disk, file_info[1])
                   filtered == Filtered(all_entries, 1, filter_non_null, filter_treatment, filter_bool_slots, filter_qa_hint, search)
                   start == (page - 1) * page_size
                   page_entries == Slice(filtered, start, start + page_size)
                   marked == AddOriginalIndices(all_entries, page_entries, 1)
               IN requests' = Append(requests,
                     [op |-> "list", status |-> 200,
                      entries |-> [j \in 1..Len(page_entries) |-> marked[page_entries[j]]],
                      total |-> Len(filtered), page |-> page, page_size |-> page_size,
                      places |-> page_entries])

MaxListed == 3

ListRecords ==
    { [id |-> "x", message |-> [text |-> <<"H", "i">>],
       gold |-> [slots |-> << <<"treatment", Text(<<"a">>)>> >>], qa_hint |-> <<"h">>],
      [id |-> "y", message |-> [text |-> <<"a">>],
       gold |-> [slots |-> << <<"is_first_time", Bool(TRUE)>>, <<"treatment", None>> >>]],
      [message |-> [text |-> <<>>], context |-> << [text |-> <<"h", "i">>] >>] }

\* any collection of up to MaxListed of these records, repeats included
InitList ==
    /\ \E n \in 0..MaxListed : \E file \in [1..n -> ListRecords] :
          disk = [p \in {<<data_root, FileId>>} |-> file]
    /\ unsaved_changes = EmptyDict
    /\ undo_stack = <<>>
    /\ requests = <<>>
    /\ WriterIdle
    /\ loop = <<>>
    /\ settings = DefaultSettings

NextList ==
    \E page \in 1..MaxListed, page_size \in 1..2, search \in {<<>>, <<"h", "i">>, <<"a">>},
       filter_non_null \in BOOLEAN, filter_treatment \in BOOLEAN, filter_bool_slots \in BOOLEAN, filter_qa_hint \in BOOLEAN :
        list_entries(FileId, page, page_size, filter_non_null, filter_treatment, filter_bool_slots, filter_qa_hint, search)

SpecList == InitList /\ [][NextList]_vars

\* --------------------------------------------------------- the event loop

\* The handlers are coroutines (async def) without an await: the event loop
\* of the one server process runs a request that is ready from the first
\* line of its handler to its return, then the next. Requests of several
\* clients arrive at any time, in any order, also while others wait.
Calls ==
    { [op |-> "patch", index |-> index, update |-> update] :
          index \in 0..1, update \in { [qa_hint |-> "ask"], [reviewed |-> TRUE] } }
    \cup { [op |-> "reviewed", index |-> index, update |-> EmptyDict] : index \in 0..1 }
    \cup { [op |-> "save", index |-> 0 - 1, update |-> EmptyDict] }

\* a request arrives; seen is the session at that moment
Accept(call) ==
    /\ Len(loop) < MaxRequests
    /\ loop' = Append(loop, [call |-> call, seen |-> Session(unsaved_changes, undo_stack)])
    /\ UNCHANGED <<disk, unsaved_changes, undo_stack, requests, settings, writerVars>>

\* the loop runs the handler of the oldest request that waits
RunHandler ==
    /\ Len(requests) < Len(loop)
    /\ LET call == loop[Len(requests) + 1].call
       IN CASE call.op = "patch" -> patch_entry(FileId, call.index, call.update)
            [] call.op = "reviewed" -> mark_reviewed(FileId, call.index)
            [] call.op = "save" -> save_file(FileId)

NextLoop ==
    \/ \E call \in Calls : Accept(call)
    \/ RunHandler

SpecLoop == InitPatch /\ [][NextLoop]_vars

\* ------------------------------------------------- the history at its cap

\* One call of EditSession.record_change, as every handler makes it for a
\* field it writes: the n-th call sets the field "visits" of the record at
\* position n % 2 from n - 1 to n.  In this model the log keeps, instead of
\* requests, the edit each call recorded.
RecordChange ==
    /\ Len(requests) < MaxRecorded
    /\ LET n == Len(requests) + 1
           file_path == <<data_root, FileId>>
           entry_index == n % 2
           entry == Put(disk[file_path][entry_index + 1], "visits", n)
           s2 == record_change(TheSession, file_path, entry_index, EntryId(entry), <<"visits">>, n - 1, n, entry)
       IN /\ unsaved_changes' = s2.unsaved_changes
          /\ undo_stack' = s2.undo_stack
          /\ requests' = Append(requests, EntryEdit(file_path, entry_index, EntryId(entry), <<"visits">>, n - 1, n))
    /\ UNCHANGED <<disk, settings, loop, writerVars>>

\* EditSession.mark_saved, as a save-all calls it once the file is written
MarkSaved ==
    /\ has_unsaved_changes(TheSession, <<data_root, FileId>>)
    /\ unsaved_changes' = mark_saved(TheSession, <<data_root, FileId>>).unsaved_changes
    /\ undo_stack' = mark_saved(TheSession, <<data_root, FileId>>).undo_stack
    /\ UNCHANGED <<disk, requests, settings, loop, writerVars>>

InitHistory ==
    /\ disk = [p \in {<<data_root, FileId>>} |-> PatchFile]
    /\ unsaved_changes = EmptyDict
    /\ undo_stack = <<>>
    /\ requests = <<>>
    /\ WriterIdle
    /\ loop = <<>>
    /\ settings = DefaultSettings

NextHistory ==
    \/ RecordChange
    \/ MarkSaved

SpecHistory == InitHistory /\ [][NextHistory]_vars

\* ------------------------------------- context updates in and out of range

\* records with a context of two messages, with no context key, with an
\* empty context
ContextFile ==
    << [id |-> "c0", message |-> Msg("client", "hi", 3000),
        context |-> << Msg("brand", "one", 1000), Msg("client", "two", 2000) >>],
       [id |-> "c1", message |-> Msg("brand", "two", 2000)],
       [id |-> "c2", message |-> Msg("client", "bye", 4000), context |-> <<>>, qa_hint |-> "old"] >>

\* context updates past the end, at the end, negative and in range, alone
\* and with other axes
ContextUpdates ==
    { [qa_hint |-> "ask", context_updates |-> << [index |-> 2, role |-> "brand"] >>],
      [reviewed |-> TRUE,
       context_updates |-> << [index |-> 0 - 1, role |-> "brand"], [index |-> 0, role |-> "client"] >>],
      [context_updates |-> << [index |-> 5, role |-> "client"] >>],
      [message_role |-> "brand",
       context_updates |-> << [index |-> 1, role |-> "brand"], [index |-> 0 - 2, role |-> "client"] >>] }

InitContext ==
    /\ disk = [p \in {<<data_root, FileId>>} |-> ContextFile]
    /\ unsaved_changes = EmptyDict
    /\ undo_stack = <<>>
    /\ requests = <<>>
    /\ WriterIdle
    /\ loop = <<>>
    /\ settings = DefaultSettings

NextContext ==
    \/ \E index \in 0..(Len(ContextFile) - 1), update \in ContextUpdates : patch_entry(FileId, index, update)
    \/ save_file(FileId)

SpecContext == InitContext /\ [][NextContext]_vars

\* ------------------------------------------------------- slot values

\* the characters of the strings sent as slot values
Chars == {"a", "b", ",", " "}

RECURSIVE TextsUpTo(_)
TextsUpTo(n) ==
    IF n = 0 THEN {<<>>}
    ELSE TextsUpTo(n - 1) \cup {Append(t, c) : t \in {t \in TextsUpTo(n - 1) : Len(t) = n - 1}, c \in Chars}

\* the values a slot is sent: strings, null, a boolean, a list
SlotInputs ==
    {Text(t) : t \in TextsUpTo(MaxLen)} \cup {None, Bool(TRUE), List(<< <<"a">>, <<"b">> >>)}

SlotNames == {"hair_removal_areas", "treatment"}

InitSlots ==
    /\ disk = [p \in {<<data_root, FileId>>} |-> PatchFile]
    /\ unsaved_changes = EmptyDict
    /\ undo_stack = <<>>
    /\ requests = <<>>
    /\ WriterIdle
    /\ loop = <<>>
    /\ settings = DefaultSettings

\* one patch of one slot of the second record, then a save-all
NextSlots ==
    \/ /\ requests = <<>>
       /\ \E slot_name \in SlotNames, value \in SlotInputs :
             patch_entry(FileId, 1, [slots |-> << <<slot_name, value>> >>])
    \/ /\ Len(requests) = 1
       /\ save_file(FileId)

SpecSlots == InitSlots /\ [][NextSlots]_vars

\* ------------------------------------------------------------- cleaner

\* The cleaner tells dicts, lists, nulls and scalars apart at every depth, so
\* the records it is given are modelled as tagged JSON values: <<"null">>,
\* <<"str", scalar>>, <<"dict", function from keys to values>> and
\* <<"list", sequence of values>>.
JNull == None
JStr(x) == Str(x)
JDict(f) == <<"dict", f>>
JList(q) == List(q)

Tag(obj) == obj[1]
Val(obj) == obj[2]
IsNull(obj) == Tag(obj) = "null"

RECURSIVE _remove_nulls(_), RemoveNullItems(_)

\* mutant: nulls are removed from the outermost dict or list only
_remove_nulls_Shallow(obj) ==
    IF Tag(obj) = "dict"
    THEN JDict([k \in {k \in DOMAIN Val(obj) : ~IsNull(Val(obj)[k])} |-> Val(obj)[k]])
    ELSE IF Tag(obj) = "list"
    THEN JList(SelectSeq(Val(obj), LAMBDA item : ~IsNull(item)))
    ELSE obj

\* cleaner.py 15-20
_remove_nulls(obj) ==
    IF Tag(obj) = "dict"
    THEN JDict([k \in {k \in DOMAIN Val(obj) : ~IsNull(Val(obj)[k])} |-> _remove_nulls(Val(obj)[k])])
    ELSE IF Tag(obj) = "list"
    THEN JList(RemoveNullItems(Val(obj)))
    ELSE obj

\* the list comprehension of line 18
RemoveNullItems(items) ==
    IF items = <<>> THEN <<>>
    ELSE (IF IsNull(Head(items)) THEN <<>> ELSE <<_remove_nulls(Head(items))>>)
         \o RemoveNullItems(Tail(items))

\* dict.pop(key, None)
Pop(d, key) == JDict([k \in DOMAIN Val(d) \ {key} |-> Val(d)[k]])

\* A copy and the object it was made from: obj is the copy, shared the paths
\* of the objects the copy still shares with the original (a pop on one of
\* them shows in the original too).
\* mutant: dict.copy(), the nested gold object is shared
deepcopy_Shallow(entry) == [obj |-> entry, shared |-> {<<"gold">>}]

\* copy.deepcopy: nothing is shared
deepcopy(entry) == [obj |-> entry, shared |-> {}]

\* cleaner.py 37-51, with the caller's object followed through the call:
\* entry is the argument as the call leaves it, returned the value returned.
\* _remove_nulls builds new dicts and lists, it writes to no object.
CleanEntryCall(entry) ==
    LET copy == deepcopy(entry)
        cleaned1 == Pop(copy.obj, "qa_hint")
        entry1 == IF <<>> \in copy.shared THEN Pop(entry, "qa_hint") ELSE entry
        has_gold == Has(Val(cleaned1), "gold") /\ Tag(Val(cleaned1).gold) = "dict"
        cleaned2 == IF has_gold
                    THEN JDict([Val(cleaned1) EXCEPT !.gold = Pop(Val(cleaned1).gold, "evidence")])
                    ELSE cleaned1
        entry2 == IF has_gold /\ <<"gold">> \in copy.shared
                  THEN JDict([Val(entry1) EXCEPT !.gold = Pop(Val(entry1).gold, "evidence")])
                  ELSE entry1
    IN [entry |-> entry2, returned |-> _remove_nulls(cleaned2)]

\* cleaner.py 23-51: the value returned
clean_entry(entry) == CleanEntryCall(entry).returned

clean_entries(entries) == [i \in 1..Len(entries) |-> clean_entry(entries[i])]

\* writer.py 185-210
write_reviewed_file(d, source_path, entries) ==
    write_jsonl_atomic(d, compute_reviewed_path(source_path), clean_entries(entries))

\* the export of the reviewed file: the collection is read, cleaned, written
WriteReviewedFile ==
    /\ <<data_root, FileId>> \in DOMAIN disk
    /\ disk' = write_reviewed_file(disk, <<data_root, FileId>>, read_jsonl(disk, <<data_root, FileId>>))
    /\ UNCHANGED <<unsaved_changes, undo_stack, requests, settings, loop, writerVars>>

\* the values of a slot: null, a scalar, lists with nulls, a list of a list
\* and of a dict that hold nulls
CleanSlotValues ==
    { JNull, JStr("x"),
      JList(<< JStr("a"), JNull, JStr("b") >>),
      JList(<< JNull >>),
      JList(<< JList(<< JNull, JStr("n") >>), JDict([k |-> JNull, m |-> JStr("v")]) >>) }

\* a key the record does not have
JAbsent == <<"absent">>

CleanGolds ==
    { JAbsent, JNull, JStr("g"), JList(<< JDict([evidence |-> JStr("e")]), JNull >>) }
    \cup { JDict([slots |-> JDict([treatment |-> sv, area |-> JStr("legs")])]) : sv \in CleanSlotValues }
    \cup { JDict([slots |-> JDict([treatment |-> sv]), evidence |-> ev]) :
             sv \in CleanSlotValues, ev \in {JNull, JDict([treatment |-> JStr("y"), area |-> JNull])} }

CleanQaHints == { JAbsent, JNull, JStr("x") }

CleanContexts ==
    { JAbsent, JList(<< JDict([role |-> JStr("brand"), ts_ms |-> JNull]), JNull >>) }

\* a field the editor does not know, holding keys named like the removed ones
CleanExtras ==
    { JAbsent, JDict([qa_hint |-> JStr("keep"), evidence |-> JStr("keep"), note |-> JNull]) }

CleanField(f, k, v) == IF v = JAbsent THEN f ELSE Put(f, k, v)

CleanEntries ==
    { JDict(CleanField(CleanField(CleanField(CleanField([id |-> JStr("e0")],
                "gold", g), "qa_hint", q), "context", c), "source", x)) :
        g \in CleanGolds, q \in CleanQaHints, c \in CleanContexts, x \in CleanExtras }

InitClean ==
    /\ \E entry \in CleanEntries : disk = [p \in {<<data_root, FileId>>} |-> <<entry>>]
    /\ unsaved_changes = EmptyDict
    /\ undo_stack = <<>>
    /\ requests = <<>>
    /\ WriterIdle
    /\ loop = <<>>
    /\ settings = DefaultSettings

NextClean == WriteReviewedFile

SpecClean == InitClean /\ [][NextClean]_vars

\* ------------------------------------------------- one call of clean_entry

\* clean_entry called on the record of the collection; the log keeps the
\* argument as it was handed over, as the call left it, and the value returned
CallCleanEntry ==
    /\ requests = <<>>
    /\ LET entry == read_jsonl(disk, <<data_root, FileId>>)[1]
           call == CleanEntryCall(entry)
       IN requests' = <<[op |-> "clean_entry", argument |-> entry,
                         entry |-> call.entry, returned |-> call.returned]>>
    /\ UNCHANGED <<disk, unsaved_changes, undo_stack, settings, loop, writerVars>>

NextCleanCall == CallCleanEntry

SpecCleanCall == InitClean /\ [][NextCleanCall]_vars

\* ------------------------------------------------- get_file_by_id, by paths

MaxSegments == 3

\* A file id is a text in pieces: names, "..", and the separator "__".
\* indexer.py 79: file_id.replace("__", "/")
Decode(file_id) == [i \in 1..Len(file_id) |-> IF file_id[i] = "__" THEN "/" ELSE file_id[i]]

\* the segments Path reads in a text; a text that starts with "/" is absolute
Segments(text) ==
    IF text # <<>> /\ Head(text) = "/"
    THEN <<"/">> \o SelectSeq(Tail(text), LAMBDA t : t # "/")
    ELSE SelectSeq(text, LAMBDA t : t # "/")

\* the file ids asked for: up to MaxSegments segments joined by "__", with
\* or without a leading "__"
RECURSIVE FileIdsUpTo(_)
FileIdsUpTo(n) ==
    IF n = 0 THEN {<<>>, <<"__">>}
    ELSE FileIdsUpTo(n - 1)
         \cup {(IF t \in {<<>>, <<"__">>} THEN t ELSE Append(t, "__")) \o <<seg>> :
                  t \in {t \in FileIdsUpTo(n - 1) : Cardinality({i \in 1..Len(t) : t[i] # "__"}) = n - 1},
                  seg \in {"..", "a.jsonl", "sub", "data", "data2", "reviewed", "reviewed.old"}}

\* get_file_by_id(root, file_id) or get_file_by_id(root, file_id, reviewed_root)
GetFile(file_id, with_reviewed) ==
    /\ requests = <<>>
    /\ LET reviewed_root == IF with_reviewed THEN <<_get_reviewed_root>> ELSE <<>>
           relative_path == Segments(Decode(file_id))
       IN requests' = <<[op |-> "get_file_by_id", file_id |-> file_id,
                         reviewed_root |-> reviewed_root,
                         returned |-> FindFile(disk, <<data_root>>, relative_path, reviewed_root)]>>
    /\ UNCHANGED <<disk, unsaved_changes, undo_stack, settings, loop, writerVars>>

\* the pieces of a name as a file id spells it: "__" inside a name is the
\* same text as the separator
Pieces(name) ==
    CASE name = "a__b.jsonl" -> <<"a", "__", "b.jsonl">>
      [] OTHER -> <<name>>

\* str(path.relative_to(root)), the segments with "/" between them
RECURSIVE PathText(_)
PathText(relative) ==
    IF relative = <<>> THEN <<>>
    ELSE IF Len(relative) = 1 THEN Pieces(relative[1])
    ELSE Pieces(relative[1]) \o <<"/">> \o PathText(Tail(relative))

\* relative.replace("/", "__")
path_to_file_id(root, path) ==
    LET relative == PathText(relative_to(path, root)[1])
    IN [i \in 1..Len(relative) |-> IF relative[i] = "/" THEN "__" ELSE relative[i]]

\* get_file_by_id(root, path_to_file_id(root, path)) for a file under root
RoundTrip(path) ==
    /\ requests = <<>>
    /\ path \in DOMAIN disk
    /\ relative_to(path, <<data_root>>) # <<>>
    /\ LET file_id == path_to_file_id(<<data_root>>, path)
       IN requests' = <<[op |-> "round_trip", path |-> path, file_id |-> file_id,
                         returned |-> FindFile(disk, <<data_root>>, Segments(Decode(file_id)), <<>>)]>>
    /\ UNCHANGED <<disk, unsaved_changes, undo_stack, settings, loop, writerVars>>

\* the files that exist: one under the data root, one in "/", one in each of
\* two directories beside the roots whose names begin with the names of the
\* roots; and any of a file in a subdirectory, a reviewed copy, a file in a
\* third directory, a file under the data root with "__" in its name
InitIndex ==
    /\ \E more \in SUBSET {<<"data", "sub", "a.jsonl">>, <<"reviewed", "a.jsonl">>, <<"other", "a.jsonl">>,
                           <<"data", "a__b.jsonl">>} :
          disk = [p \in {<<"data", "a.jsonl">>, <<"a.jsonl">>, <<"data2", "a.jsonl">>,
                         <<"reviewed.old", "a.jsonl">>} \cup more |-> <<>>]
    /\ unsaved_changes = EmptyDict
    /\ undo_stack = <<>>
    /\ requests = <<>>
    /\ WriterIdle
    /\ loop = <<>>
    /\ settings = DefaultSettings

NextIndex ==
    \/ \E file_id \in FileIdsUpTo(MaxSegments) \ {<<>>, <<"__">>}, with_reviewed \in BOOLEAN :
          GetFile(file_id, with_reviewed)
    \/ \E path \in DOMAIN disk : RoundTrip(path)

SpecIndex == InitIndex /\ [][NextIndex]_vars

\* ------------------------------------------------------- update_entry

\* mutant: the check lets Python's negative indices through
IndexInRange_AllowsNegative(index, n) == 0 - n <= index /\ index < n

\* writer.py 84, negated: the index names a record of the file
IndexInRange(index, n) == 0 <= index /\ index < n

\* mutant: the record is inserted before the position, not put in its place
ReplaceAt_Inserts(entries, index, entry) ==
    LET at == IF index < 0 THEN Len(entries) + index + 1 ELSE index + 1
    IN SubSeq(entries, 1, at - 1) \o <<entry>> \o SubSeq(entries, at, Len(entries))

\* writer.py 92, entries[index] = entry; a negative index counts from the end
ReplaceAt(entries, index, entry) ==
    LET at == IF index < 0 THEN Len(entries) + index + 1 ELSE index + 1
    IN [entries EXCEPT ![at] = entry]

\* writer.py 52-59 on a file that exists: shutil.copy2 to the file's name
\* with the suffix replaced by .<timestamp>.bak
create_backup(d, path, timestamp) ==
    LET name == CASE timestamp = 1 -> "a.1.bak" [] OTHER -> "a.2.bak"
    IN Put(d, Append(SubSeq(path, 1, Len(path) - 1), name), d[path])

\* writer.py 116-144 for records whose values are scalars: one line appended
\* to the log, with the keys whose values differ
log_edit(d, log_path, file_path, index, old_entry, new_entry, timestamp) ==
    LET Get(e, k) == IF Has(e, k) THEN Str(e[k]) ELSE None
        changed == {k \in DOMAIN old_entry \cup DOMAIN new_entry : Get(old_entry, k) # Get(new_entry, k)}
        log_entry == [timestamp |-> timestamp, file |-> file_path, index |-> index,
                      entry_id |-> IF Has(new_entry, "id") THEN new_entry.id ELSE "unknown",
                      changes |-> [k \in changed |-> [old |-> Get(old_entry, k), new |-> Get(new_entry, k)]]]
    IN Put(d, log_path, (IF log_path \in DOMAIN d THEN d[log_path] ELSE <<>>) \o <<log_entry>>)

\* mutant: the backup is taken once the file is written
update_entry_BacksUpAfterWrite(path, index, entry, backup, log_path, timestamp, write_ok) ==
    /\ requests = <<>>
    /\ LET entries == read_jsonl(disk, path)
           call == [op |-> "update_entry", index |-> index, entry |-> entry,
                    backup |-> backup, log_path |-> log_path]
       IN IF ~IndexInRange(index, Len(entries))
          THEN /\ disk' = disk
               /\ requests' = <<Put(call, "raised", "IndexError")>>
          ELSE LET d1 == write_jsonl_atomic(disk, path, ReplaceAt(entries, index, entry))
                   d2 == IF backup THEN create_backup(d1, path, timestamp) ELSE d1
               IN /\ disk' = IF write_ok THEN d2 ELSE disk
                  /\ requests' = <<Put(call, "raised", IF write_ok THEN "" ELSE "OSError")>>
    /\ UNCHANGED <<unsaved_changes, undo_stack, settings, loop, writerVars>>

\* writer.py 62-97, one call; log_path is <<>> (None) or <<path>>, timestamp
\* what the clock reads, write_ok whether write_jsonl_atomic succeeds
update_entry(path, index, entry, backup, log_path, timestamp, write_ok) ==
    /\ requests = <<>>
    /\ LET entries == read_jsonl(disk, path)
           call == [op |-> "update_entry", index |-> index, entry |-> entry,
                    backup |-> backup, log_path |-> log_path]
       IN IF ~IndexInRange(index, Len(entries))
          THEN /\ disk' = disk
               /\ requests' = <<Put(call, "raised", "IndexError")>>
          ELSE LET at == IF index < 0 THEN Len(entries) + index + 1 ELSE index + 1
                   old_entry == entries[at]
                   d1 == IF backup THEN create_backup(disk, path, timestamp) ELSE disk
                   d2 == write_jsonl_atomic(d1, path, ReplaceAt(entries, index, entry))
                   d3 == IF log_path # <<>>
                         THEN log_edit(d2, log_path[1], path, index, old_entry, entry, timestamp)
                         ELSE d2
               IN /\ disk' = IF write_ok THEN d3 ELSE d1
                  /\ requests' = <<Put(call, "raised", IF write_ok THEN "" ELSE "OSError")>>
    /\ UNCHANGED <<unsaved_changes, undo_stack, settings, loop, writerVars>>

\* the file holds up to MaxEntries records; a backup of an earlier second and
\* a log with an earlier line may be there
InitUpdate ==
    /\ \E file \in UNION {[1..n -> {[id |-> "u0", v |-> "x"], [id |-> "u1", v |-> "y"]}] : n \in 0..MaxEntries},
          old \in SUBSET {<<data_root, "a.1.bak">>, <<"edits.log">>} :
          disk = [p \in {<<data_root, FileId>>} \cup old |->
                    IF p = <<data_root, FileId>> THEN file ELSE <<>>]
    /\ unsaved_changes = EmptyDict
    /\ undo_stack = <<>>
    /\ requests = <<>>
    /\ WriterIdle
    /\ loop = <<>>
    /\ settings = DefaultSettings

NextUpdate ==
    \E index \in (0 - 2)..(MaxEntries + 1), entry \in {[id |-> "u1", v |-> "x"], [v |-> "z"]},
       backup \in BOOLEAN, log_path \in {<<>>, << <<"edits.log">> >>},
       timestamp \in 1..2, write_ok \in BOOLEAN :
        update_entry(<<data_root, FileId>>, index, entry, backup, log_path, timestamp, write_ok)

SpecUpdate == InitUpdate /\ [][NextUpdate]_vars

\* update_entry as a tool of its own on the file, and the handlers of the
\* session on the same file
NextBackup ==
    \/ \E index \in 0..(MaxEntries - 1), backup \in BOOLEAN, timestamp \in 1..2, write_ok \in BOOLEAN :
          update_entry(<<data_root, FileId>>, index, [v |-> "z"], backup, <<>>, timestamp, write_ok)
    \/ patch_entry(FileId, 0, [qa_hint |-> "ask"])
    \/ \E index \in 0..(MaxEntries - 1) : mark_reviewed(FileId, index)
    \/ save_file(FileId)

SpecBackup == InitUpdate /\ [][NextBackup]_vars

\* ------------------------------------------ write_jsonl_atomic, step by step

\* the lines json.dumps(entry) + "\n" of the entries a call may be given
Lines == {"x", "y"}
RECURSIVE SeqsUpTo(_)
SeqsUpTo(n) ==
    IF n = 0 THEN {<<>>}
    ELSE SeqsUpTo(n - 1) \cup {Append(q, l) : q \in {q \in SeqsUpTo(n - 1) : Len(q) = n - 1}, l \in Lines}

Target == "out.jsonl"

\* mutant: the entries are written to the target itself
mkstemp_InPlace(path) == path

\* line 29, tempfile.mkstemp(suffix=".jsonl", dir=parent): a fresh name in the
\* directory of the target
mkstemp(path) == "tmp.jsonl"

\* Optional content of a file: <<>> when the file does not exist
Content(f, name) == IF name \in DOMAIN f THEN <<f[name]>> ELSE <<>>

\* lines 24-29: the call starts, the temporary file is created empty
WriteStart(entries) ==
    /\ wr.pc \in {"idle", "done", "raised"}
    /\ LET temp_path == mkstemp(Target)
       IN /\ fs' = Put(fs, temp_path, <<>>)
          /\ wr' = [pc |-> "writing", path |-> Target, entries |-> entries,
                    temp_path |-> temp_path, written |-> 0, previous |-> Content(fs, Target)]
    /\ UNCHANGED handlerVars

\* lines 32-33: one entry serialized and written to the temporary file
WriteEntry ==
    /\ wr.pc = "writing" /\ wr.written < Len(wr.entries)
    /\ fs' = [fs EXCEPT ![wr.temp_path] = Append(@, wr.entries[wr.written + 1])]
    /\ wr' = [wr EXCEPT !.written = @ + 1]
    /\ UNCHANGED handlerVars

\* lines 32-33 raising (json.dumps on an entry it cannot serialize, a full disk)
WriteEntryFails ==
    /\ wr.pc = "writing" /\ wr.written < Len(wr.entries)
    /\ wr' = [wr EXCEPT !.pc = "failed"]
    /\ UNCHANGED <<fs, handlerVars>>

\* line 36, shutil.move within one directory: the rename
Move ==
    /\ wr.pc = "writing" /\ wr.written = Len(wr.entries)
    /\ fs' = Put(Del(fs, {wr.temp_path}), wr.path, fs[wr.temp_path])
    /\ wr' = [wr EXCEPT !.pc = "done"]
    /\ UNCHANGED handlerVars

\* line 36 raising
MoveFails ==
    /\ wr.pc = "writing" /\ wr.written = Len(wr.entries)
    /\ wr' = [wr EXCEPT !.pc = "failed"]
    /\ UNCHANGED <<fs, handlerVars>>

\* mutant: the error is raised again without the cleanup
Unlink_KeepsTemp ==
    /\ wr.pc = "failed"
    /\ wr' = [wr EXCEPT !.pc = "raised"]
    /\ UNCHANGED <<fs, handlerVars>>

\* lines 37-40: the temporary file removed, the error raised again
Unlink ==
    /\ wr.pc = "failed"
    /\ fs' = Del(fs, {wr.temp_path})
    /\ wr' = [wr EXCEPT !.pc = "raised"]
    /\ UNCHANGED handlerVars

\* the process dies in the middle of the call: the directory stays as it is
Crash ==
    /\ wr.pc \in {"writing", "failed"}
    /\ wr' = [wr EXCEPT !.pc = "crashed"]
    /\ UNCHANGED <<fs, handlerVars>>

\* a crash right after the rename, before the call returns
CrashAfterMove ==
    /\ wr.pc = "done"
    /\ wr' = [wr EXCEPT !.pc = "crashed"]
    /\ UNCHANGED <<fs, handlerVars>>

InitWrite ==
    /\ disk = EmptyDict /\ unsaved_changes = EmptyDict /\ undo_stack = <<>> /\ requests = <<>>
    /\ wr = [pc |-> "idle"]
    /\ settings = DefaultSettings
    /\ loop = <<>>
    /\ \E previous \in SeqsUpTo(MaxEntries) :
          fs = EmptyDict \/ fs = [n \in {Target} |-> previous]

NextWrite ==
    \/ \E entries \in SeqsUpTo(MaxEntries) : WriteStart(entries)
    \/ WriteEntry
    \/ WriteEntryFails
    \/ Move
    \/ MoveFails
    \/ Unlink
    \/ Crash
    \/ CrashAfterMove

SpecWrite == InitWrite /\ [][NextWrite]_vars

\* ===================================================================
\* Properties
\* ===================================================================

\* the step handles one request; Req is that request with its response
IsRequest == Len(requests') = Len(requests) + 1
Req == requests'[Len(requests')]
Last == requests[Len(requests)]

\* the overrides of the positions other than index
OtherOverrides(u, index) == [k \in {k \in DOMAIN u : k[2] # index} |-> u[k]]

NoOverride(u, file_path) == \A k \in DOMAIN u : k[1] # file_path

\* the history entries a step appended (the history stays below its cap here)
Appended == SubSeq(undo_stack', Len(undo_stack) + 1, Len(undo_stack'))

\* the records a reader sees now
CurrentPath == get_file_by_id(disk, FileId)[1]
CurrentView ==
    LET entries == disk[CurrentPath]
    IN [i \in 1..Len(entries) |->
          IF <<CurrentPath, i - 1>> \in DOMAIN unsaved_changes
          THEN unsaved_changes[<<CurrentPath, i - 1>>] ELSE entries[i]]

\* the message-shaped objects of a record: its main message and its context
MessagesOf(entry) ==
    (IF Has(entry, "message") THEN {entry.message} ELSE {})
    \cup (IF Has(entry, "context") THEN {entry.context[i] : i \in 1..Len(entry.context)} ELSE {})

HasTs(msg, ts_ms) == ~Has(msg, "raw") /\ Has(msg, "ts_ms") /\ msg.ts_ms = ts_ms
HasRole(msg, role) == Has(msg, "role") /\ msg.role = role

\* the main message of the record is a dict with a non-null ts_ms
MainHasTs(entry) ==
    Has(entry, "message") /\ ~Has(entry.message, "raw") /\ Has(entry.message, "ts_ms")

\* a patch of the main message's role answered 200
IsRolePatch(r) == r.op = "patch" /\ r.status = 200 /\ Has(r.update, "message_role")

\* after request r, which set message_role on a message of ts_ms T: every
\* message of another record with ts_ms T has the role, and a record without
\* such a message is as it was
SiblingsFollow(r, view) ==
    LET T == r.before[r.index + 1].message.ts_ms
        R == r.update.message_role
    IN \A p \in 1..Len(view) : p # r.index + 1 =>
         /\ \A m \in MessagesOf(view[p]) : HasTs(m, T) => HasRole(m, R)
         /\ (\A m \in MessagesOf(r.before[p]) : ~HasTs(m, T)) => view[p] = r.before[p]

ToChange(run) ==
    {p \in 1..Len(run.view) :
        /\ p # run.source_index + 1
        /\ \E m \in MessagesOf(run.view[p]) : HasTs(m, run.ts_ms) /\ ~HasRole(m, run.new_role)}

AllRuns == {<<k, j>> \in (1..Len(requests)) \X (1..3) : j <= Len(requests[k].runs)}

\* C3: a run of _propagate_role_change returns the number of positions other
\* than the source whose record held a message of the ts_ms with a role other
\* than the new one; each such record counts once.
C3_SyncedCountIsChangedSiblings ==
    \A kj \in AllRuns :
        LET run == requests[kj[1]].runs[kj[2]]
        IN run.returned = Cardinality(ToChange(run))

\* a run that changed the main message and a context message of one record
\* and counted the record once, from a source that itself held the ts_ms twice
C3_Witness ==
    \E kj \in AllRuns :
        LET run == requests[kj[1]].runs[kj[2]]
            Differs(m) == HasTs(m, run.ts_ms) /\ ~HasRole(m, run.new_role)
        IN /\ run.returned = 1
           /\ \E p \in ToChange(run) :
                /\ Differs(MessageOf(run.view[p]))
                /\ \E i \in 1..Len(ContextOf(run.view[p])) : Differs(run.view[p].context[i])
           /\ \E p \in 1..Len(run.view) :
                p # run.source_index + 1 /\ p \notin ToChange(run)

\* the roles a patch assigns, to the main message and to context entries
RolesOfPatch(update) ==
    (IF Has(update, "message_role") THEN {update.message_role} ELSE {})
    \cup (IF Has(update, "context_updates")
          THEN {update.context_updates[i].role : i \in {j \in 1..Len(update.context_updates) : Has(update.context_updates[j], "role")}}
          ELSE {})

\* r is a patch answered 200 that assigns one role
IsOneRolePatch(r) ==
    r.op = "patch" /\ r.status = 200 /\ Cardinality(RolesOfPatch(r.update)) = 1

SamePatch(r1, r2) ==
    r1.op = r2.op /\ r1.file_id = r2.file_id /\ r1.index = r2.index /\ r1.update = r2.update

\* the request of the step repeats the role patch handled just before it, or
\* handled before a successful save-all that came just before it
RepeatsRolePatch ==
    /\ IsRequest /\ IsOneRolePatch(Req) /\ requests # <<>>
    /\ \/ IsOneRolePatch(Last) /\ SamePatch(Last, Req)
       \/ /\ Len(requests) >= 2
          /\ Last.op = "save" /\ Last.status = 200
          /\ IsOneRolePatch(requests[Len(requests) - 1])
          /\ SamePatch(requests[Len(requests) - 1], Req)

\* the step left the other positions alone: no override of another position
\* changed and every history entry it appended is of position index
SiblingsUntouched(index) ==
    /\ OtherOverrides(unsaved_changes', index) = OtherOverrides(unsaved_changes, index)
    /\ \A i \in 1..Len(Appended) : Appended[i].entry_index = index

\* C4: repeating a role patch (same position, same role) right after it was
\* applied, or after a save-all in between, returns synced_count = 0 and adds
\* no history entry and changes no override of any other position.
C4_RepeatedRolePatchSyncsNothing ==
    [][RepeatsRolePatch => (Req.synced_count = 0 /\ SiblingsUntouched(Req.index))]_vars

\* the same role patch twice around a save-all, the first of which synced a sibling
C4_Witness ==
    /\ Len(requests) = 3
    /\ IsOneRolePatch(requests[1]) /\ requests[1].synced_count >= 1
    /\ requests[2].op = "save" /\ requests[2].message = "Saved"
    /\ IsOneRolePatch(requests[3]) /\ SamePatch(requests[1], requests[3])

\* C5: a patch of message_role whose target message has no ts_ms (key absent,
\* value null, or main message no dict) creates no override and no history
\* entry for another position and returns synced_count = 0.
C5_NoTsNoPropagation ==
    [][(IsRequest /\ IsRolePatch(Req) /\ ~Has(Req.update, "context_updates")
          /\ ~MainHasTs(Req.before[Req.index + 1]))
        => (Req.synced_count = 0 /\ SiblingsUntouched(Req.index))]_vars

\* the reviewed location of the file of a request
ReviewedLocation(r) == <<"reviewed", r.file_id>>

\* a successful save-all of a file with unsaved changes
SavesChanges ==
    IsRequest /\ Req.op = "save" /\ Req.status = 200 /\ ~NoOverride(unsaved_changes, Req.path)

\* C6: after a successful save-all on a collection with unsaved changes the
\* reviewed file holds at every position the override if there was one, else
\* the record read from disk, whole, and the collection has no unsaved change.
C6_SaveWritesMergedRecords ==
    [][SavesChanges =>
         /\ ReviewedLocation(Req) \in DOMAIN disk'
         /\ disk'[ReviewedLocation(Req)] =
               [i \in 1..Len(disk[Req.path]) |->
                   IF <<Req.path, i - 1>> \in DOMAIN unsaved_changes
                   THEN unsaved_changes[<<Req.path, i - 1>>] ELSE disk[Req.path][i]]
         /\ NoOverride(unsaved_changes', Req.path)
         /\ NoOverride(unsaved_changes', ReviewedLocation(Req))]_vars

\* a saved file with an override at one position, the disk record at another,
\* and a qa_hint and evidence still in it
C6_Witness ==
    /\ requests # <<>> /\ Last.op = "save" /\ Last.message = "Saved"
    /\ LET saved == disk[ReviewedLocation(Last)]
           orig == disk[<<"data", Last.file_id>>]
       IN /\ \E p \in 1..Len(saved) : saved[p] # orig[p]
          /\ \E p \in 1..Len(saved) : saved[p] = orig[p]
          /\ \E p \in 1..Len(saved) :
                /\ Has(saved[p], "qa_hint")
                /\ Has(saved[p], "gold") /\ Has(saved[p].gold, "evidence")
                /\ saved[p].gold.evidence # EmptyDict

\* C7: save-all on a collection with no unsaved change reports success and
\* changes nothing, neither a file nor the session; a save-all directly after
\* a successful save-all is such a call.
C7_SaveWithoutChangesIsNoOp ==
    [][(IsRequest /\ Req.op = "save" /\ Req.status # 404
          /\ (NoOverride(unsaved_changes, Req.path)
              \/ (requests # <<>> /\ Last.op = "save" /\ Last.status = 200)))
        => /\ Req.status = 200 /\ Req.message = "No changes to save"
           /\ disk' = disk
           /\ unsaved_changes' = unsaved_changes
           /\ undo_stack' = undo_stack]_vars

\* a save-all that wrote, then a save-all that had nothing to write
C7_Witness ==
    /\ Len(requests) >= 2
    /\ requests[Len(requests) - 1].op = "save" /\ requests[Len(requests) - 1].message = "Saved"
    /\ Last.op = "save" /\ Last.message = "No changes to save"

\* the records before the step: the override if there is one, else the disk record
ViewBefore(file_path) ==
    [i \in 1..Len(disk[file_path]) |->
        IF <<file_path, i - 1>> \in DOMAIN unsaved_changes
        THEN unsaved_changes[<<file_path, i - 1>>] ELSE disk[file_path][i]]

Flipped(entry) ==
    [k \in DOMAIN entry \cup {"reviewed"} |->
        IF k = "reviewed" THEN (IF Has(entry, "reviewed") THEN ~entry.reviewed ELSE TRUE)
        ELSE entry[k]]

IsToggle(r) == r.op = "reviewed" /\ r.status = 200

\* C8: a successful toggle-reviewed on position i writes the whole collection
\* to the reviewed location: the override where there is one, the disk record
\* elsewhere, position i with its reviewed flag flipped, nothing removed; the
\* session then holds no override for the collection.
C8_ToggleWritesWholeCollection ==
    [][(IsRequest /\ IsToggle(Req)) =>
         /\ ReviewedLocation(Req) \in DOMAIN disk'
         /\ disk'[ReviewedLocation(Req)] =
               [i \in 1..Len(disk[Req.path]) |->
                   IF i = Req.index + 1 THEN Flipped(ViewBefore(Req.path)[i])
                   ELSE ViewBefore(Req.path)[i]]
         /\ NoOverride(unsaved_changes', Req.path)
         /\ NoOverride(unsaved_changes', ReviewedLocation(Req))]_vars

\* a toggle on a position that had an override, with an override at another
\* position and a third position still as on disk
C8_Witness ==
    /\ Len(requests) >= 2 /\ IsToggle(Last) /\ Last.path = <<"data", Last.file_id>>
    /\ LET saved == disk[ReviewedLocation(Last)]
           orig == disk[Last.path]
           i == Last.index + 1
       IN /\ Last.before[i] # orig[i]
          /\ saved[i] = Flipped(Last.before[i])
          /\ \E p \in 1..Len(saved) : p # i /\ saved[p] # orig[p]
          /\ \E p \in 1..Len(saved) : p # i /\ saved[p] = orig[p]

IsReviewedEdit(e, index) == e.entry_index = index /\ e.field_path = <<"reviewed">>

\* C9: a successful toggle appends one history entry, of field reviewed; the
\* second of two successive successful toggles of a position brings the flag
\* back to the value it had before the first, and its entry has the old and
\* new values of the first entry swapped.
C9_ToggleTwiceRestores ==
    [][(IsRequest /\ IsToggle(Req)) =>
         /\ Len(Appended) = 1 /\ IsReviewedEdit(Appended[1], Req.index)
         /\ (requests # <<>> /\ IsToggle(Last) /\ Last.index = Req.index /\ Last.file_id = Req.file_id)
            => LET first == undo_stack[Len(undo_stack)]
                   second == Appended[1]
                   original == Last.before[Last.index + 1]
                   now == disk'[ReviewedLocation(Req)][Req.index + 1]
               IN /\ IsReviewedEdit(first, Req.index)
                  /\ second.old_value = first.new_value
                  /\ second.new_value = first.old_value
                  /\ first.old_value # first.new_value
                  /\ first.old_value = Bool(Has(original, "reviewed") /\ original.reviewed)
                  /\ Has(now, "reviewed")
                  /\ now.reviewed = (Has(original, "reviewed") /\ original.reviewed)]_vars

\* two successive toggles of one position, on a record that had no reviewed key
C9_Witness ==
    /\ Len(requests) >= 2 /\ IsToggle(Last)
    /\ IsToggle(requests[Len(requests) - 1])
    /\ requests[Len(requests) - 1].index = Last.index
    /\ ~Has(requests[Len(requests) - 1].before[Last.index + 1], "reviewed")

\* ---- C1, in the patch model

\* the record with one patch applied, axis by axis
RECURSIVE WithItems(_, _, _)
WithItems(d, items, isSlots) ==
    IF items = <<>> THEN d
    ELSE WithItems([k \in DOMAIN d \cup {Head(items)[1]} |->
                       IF k = Head(items)[1]
                       THEN (IF isSlots THEN SlotValue(k, Head(items)[2]) ELSE Head(items)[2])
                       ELSE d[k]],
                   Tail(items), isSlots)

Sub(d, k) == IF Has(d, k) THEN d[k] ELSE <<>>
Set(d, k, v) == [x \in DOMAIN d \cup {k} |-> IF x = k THEN v ELSE d[x]]

RECURSIVE WithContextRoles(_, _)
WithContextRoles(context, updates) ==
    IF updates = <<>> THEN context
    ELSE LET u == Head(updates)
             ok == Has(u, "index") /\ Has(u, "role") /\ u.role # "" /\ u.index >= 0 /\ u.index < Len(context)
         IN WithContextRoles(IF ok THEN [context EXCEPT ![u.index + 1] = Set(@, "role", u.role)] ELSE context,
                             Tail(updates))

Patched(entry, update) ==
    LET e1 == IF Has(update, "slots") /\ update.slots # <<>>
              THEN Set(entry, "gold", Set(Sub(entry, "gold"), "slots", WithItems(Sub(Sub(entry, "gold"), "slots"), update.slots, TRUE)))
              ELSE entry
        e2 == IF Has(update, "evidence") /\ update.evidence # <<>>
              THEN Set(e1, "gold", Set(Sub(e1, "gold"), "evidence", WithItems(Sub(Sub(e1, "gold"), "evidence"), update.evidence, FALSE)))
              ELSE e1
        e3 == IF Has(update, "intentions")
              THEN Set(e2, "gold", Set(Sub(e2, "gold"), "intentions", List(update.intentions)))
              ELSE e2
        e4 == IF Has(update, "qa_hint") THEN Set(e3, "qa_hint", update.qa_hint) ELSE e3
        e5 == IF Has(update, "reviewed") THEN Set(e4, "reviewed", update.reviewed) ELSE e4
        e6 == IF Has(update, "message_role")
              THEN Set(e5, "message", Set(e5.message, "role", update.message_role))
              ELSE e5
    IN IF Has(update, "context_updates") /\ Has(e6, "context")
       THEN Set(e6, "context", WithContextRoles(e6.context, update.context_updates))
       ELSE e6

\* the record with the patches of requests from..to applied in order
RECURSIVE PatchedBy(_, _, _)
PatchedBy(entry, from, to) ==
    IF from > to THEN entry
    ELSE PatchedBy(Patched(entry, requests[from].update), from + 1, to)

\* the patch writes a field of the record
Writes(entry, update) ==
    \/ Has(update, "slots") /\ update.slots # <<>>
    \/ Has(update, "evidence") /\ update.evidence # <<>>
    \/ \E k \in {"intentions", "qa_hint", "reviewed", "message_role"} : Has(update, k)
    \/ /\ Has(update, "context_updates")
       /\ \E i \in 1..Len(update.context_updates) :
            LET u == update.context_updates[i]
            IN Has(u, "index") /\ Has(u, "role") /\ u.role # ""
               /\ u.index >= 0 /\ u.index < Len(Sub(entry, "context"))

HasEmptyMap(update) ==
    \/ Has(update, "slots") /\ update.slots = <<>>
    \/ Has(update, "evidence") /\ update.evidence = <<>>

\* the requests since the last save-all (all of them when there was none)
SegmentStart ==
    LET saves == {k \in 1..Len(requests) : requests[k].op # "patch"}
    IN IF saves = {} THEN 1 ELSE (CHOOSE k \in saves : \A j \in saves : j <= k) + 1

\* the requests since the last save are N >= 1 successful patches of position s
OnlyPatchesOf(s) ==
    /\ SegmentStart <= Len(requests)
    /\ \A k \in SegmentStart..Len(requests) :
          requests[k].op = "patch" /\ requests[k].status = 200 /\ requests[k].index = s

C10_TargetIsPreviousOrNew ==
    wr.pc # "idle" =>
        /\ Content(fs, Target) \in {wr.previous, <<wr.entries>>}
        /\ wr.pc = "done" => Content(fs, Target) = <<wr.entries>>
        /\ wr.pc \in {"writing", "failed", "raised"} => Content(fs, Target) = wr.previous

\* a crash with the temporary file half written, over a target with other content
C10_Witness ==
    /\ wr.pc = "crashed"
    /\ wr.temp_path \in DOMAIN fs
    /\ 0 < Len(fs[wr.temp_path]) /\ Len(fs[wr.temp_path]) < Len(wr.entries)
    /\ wr.previous # <<>> /\ wr.previous # <<wr.entries>>
    /\ wr.previous[1] # <<>>

\* ---- C11, in the model of write_jsonl_atomic

\* C11: when writing an entry or the rename fails, the call ends by raising
\* the error, with the target as it was before the call (same content, or
\* still absent) and the temporary file gone from the directory.
C11_FailedWriteRestoresDirectory ==
    /\ wr.pc = "failed" => Content(fs, Target) = wr.previous
    /\ wr.pc = "raised" =>
          /\ Content(fs, Target) = wr.previous
          /\ wr.temp_path \notin DOMAIN fs
          /\ DOMAIN fs \subseteq {Target}

\* a call that failed after it had written a part of the entries, over a
\* target that had content
C11_Witness ==
    /\ wr.pc = "raised"
    /\ 0 < wr.written /\ wr.written < Len(wr.entries)
    /\ wr.previous # <<>> /\ wr.previous[1] # <<>>

\* ---- C12 and C15, in the model of two collections

FailedWrite(r) == r.op \in {"reviewed", "save"} /\ r.status = 500

\* the history entry of a toggle of the record entry at position index
ToggleEdit(file_path, index, entry) ==
    [file_path |-> file_path, entry_index |-> index,
     entry_id |-> IF Has(entry, "id") THEN entry.id ELSE "",
     field_path |-> <<"reviewed">>,
     old_value |-> Bool(Has(entry, "reviewed") /\ entry.reviewed),
     new_value |-> Bool(~(Has(entry, "reviewed") /\ entry.reviewed))]

\* C12: when the write of toggle-reviewed or save-all fails the call answers
\* with an error, no file changes and the session is not rolled back: the
\* overrides of the collection stay (for a toggle, with the record whose flag
\* was flipped among them), the collection still has unsaved changes and the
\* history entry of the call stays.
C12_FailedWriteKeepsSession ==
    [][(IsRequest /\ FailedWrite(Req)) =>
         /\ disk' = disk
         /\ ~NoOverride(unsaved_changes', Req.path)
         /\ Req.op = "save" =>
               unsaved_changes' = unsaved_changes /\ undo_stack' = undo_stack
         /\ Req.op = "reviewed" =>
               LET before == ViewBefore(Req.path)[Req.index + 1]
               IN /\ DOMAIN unsaved_changes' = DOMAIN unsaved_changes \cup {<<Req.path, Req.index>>}
                  /\ \A k \in DOMAIN unsaved_changes' :
                        unsaved_changes'[k] = IF k = <<Req.path, Req.index>> THEN Flipped(before)
                                              ELSE unsaved_changes[k]
                  /\ undo_stack' = Append(undo_stack, ToggleEdit(Req.path, Req.index, before))]_vars

\* a toggle whose write failed, then a save-all whose write failed, with the
\* override of an earlier patch and the flipped record both still unsaved
C12_Witness ==
    /\ Len(requests) = 3
    /\ requests[1].op = "patch" /\ requests[1].status = 200
    /\ requests[2].op = "reviewed" /\ requests[2].status = 500
    /\ requests[2].file_id = requests[1].file_id /\ requests[2].index # requests[1].index
    /\ Last.op = "save" /\ Last.status = 500 /\ Last.file_id = requests[1].file_id
    /\ <<Last.path, requests[1].index>> \in DOMAIN unsaved_changes
    /\ <<Last.path, requests[2].index>> \in DOMAIN unsaved_changes
    /\ Len(undo_stack) >= 2

\* the overrides of the collections other than file_path
OverridesElsewhere(u, file_path) == [k \in {k \in DOMAIN u : k[1] # file_path} |-> u[k]]

IsPrefix(p, q) == Len(p) <= Len(q) /\ SubSeq(q, 1, Len(p)) = p

\* a toggle-reviewed or save-all that wrote the collection and marked it saved
MarksSaved(r) ==
    \/ r.op = "reviewed" /\ r.status = 200
    \/ r.op = "save" /\ r.status = 200 /\ r.message = "Saved"

\* C15: a call that marks collection c saved removes the overrides keyed by c
\* and no other: the overrides of every other collection stay as they were,
\* and the history keeps every entry it had, in order (a toggle adds its own
\* entry before it marks saved).  No request removes or reorders history
\* entries: below the cap the old history is a prefix of the new one.
C15_MarkSavedDropsOneCollection ==
    [][/\ IsPrefix(undo_stack, undo_stack')
       /\ (IsRequest /\ MarksSaved(Req)) =>
             /\ NoOverride(unsaved_changes', Req.path)
             /\ OverridesElsewhere(unsaved_changes', Req.path) = OverridesElsewhere(unsaved_changes, Req.path)
             /\ undo_stack' = IF Req.op = "save" THEN undo_stack
                               ELSE Append(undo_stack, ToggleEdit(Req.path, Req.index, ViewBefore(Req.path)[Req.index + 1]))]_vars

\* a save-all of one collection that had overrides, while the other collection
\* has an override too and the history holds the edits of both
C15_Witness ==
    /\ Len(requests) = 3 /\ MarksSaved(Last) /\ Last.op = "save"
    /\ requests[1].op = "patch" /\ requests[1].status = 200
    /\ requests[2].op = "patch" /\ requests[2].status = 200
    /\ requests[1].file_id # requests[2].file_id
    /\ unsaved_changes # EmptyDict
    /\ NoOverride(unsaved_changes, Last.path)
    /\ \E i, j \in 1..Len(undo_stack) : undo_stack[i].file_path # undo_stack[j].file_path

\* ---- C13, in the role and save model

\* C13: patch_entry writes no file: after a patch, also one that propagates a
\* role to sibling records or that ends in an error, the original file and
\* the reviewed file are as before; what the patch changed is in the
\* session's overrides only.
C13_PatchWritesNoFile ==
    [][(IsRequest /\ Req.op = "patch") =>
         /\ disk' = disk
         /\ \A i \in 1..Len(Req.before) :
               (Req.status # 404 /\ <<Req.path, i - 1>> \notin DOMAIN unsaved_changes')
                  => Req.before[i] = disk[Req.path][i]]_vars

\* a patch that synced a sibling, on a collection that has a reviewed file
\* from an earlier toggle: the records read differ from both files
C13_Witness ==
    /\ Len(requests) >= 2 /\ Last.op = "patch" /\ Last.status = 200 /\ Last.synced_count >= 1
    /\ <<"reviewed", FileId>> \in DOMAIN disk
    /\ \E i \in 1..Len(CurrentView) :
          /\ CurrentView[i] # disk[<<"reviewed", FileId>>][i]
          /\ CurrentView[i] # disk[<<"data", FileId>>][i]
          /\ i # Last.index + 1

\* ---- C14, in the model of the history at its cap

\* C14: the history never holds more than 100 entries, and it is always the
\* last (at most 100) of the edits recorded, in the order they were recorded:
\* once it is full, each record_change drops the oldest entry.
C14_HistoryIsLastHundredEdits ==
    /\ Len(undo_stack) <= 100
    /\ undo_stack = SubSeq(requests, IF Len(requests) > 100 THEN Len(requests) - 99 ELSE 1, Len(requests))

\* three edits recorded past the cap: the first three are gone
C14_Witness ==
    /\ Len(requests) = 103
    /\ Len(undo_stack) = 100
    /\ undo_stack[1] = requests[4] /\ undo_stack[1].new_value = 4
    /\ undo_stack[100] = requests[103]

\* ---- C16, in the patch model

\* the place of a history entry's field in the order of the axes
AxisRank(edit) ==
    LET fp == edit.field_path
    IN CASE fp[1] = "gold" /\ fp[2] = "slots" -> 1
         [] fp[1] = "gold" /\ fp[2] = "evidence" -> 2
         [] fp[1] = "gold" /\ fp[2] = "intentions" -> 3
         [] fp[1] = "qa_hint" -> 4
         [] fp[1] = "reviewed" -> 5
         [] fp[1] = "message" -> 6
         [] fp[1] = "context" -> 7

\* C16: the history entries one patch_entry call appends are in the order of
\* the axes: slots, evidence, intentions, qa_hint, reviewed, message role,
\* context roles.  The entries of a propagation (those of other positions)
\* come right after the role entry of the patched record that caused them and
\* carry its role, so none of them precedes an entry of an earlier axis.
C16_HistoryFollowsAxisOrder ==
    [][(IsRequest /\ Req.op = "patch") =>
         LET A == Appended
             OfTarget(i) == A[i].entry_index = Req.index
         IN /\ \A i, j \in 1..Len(A) :
                  (i < j /\ OfTarget(i) /\ OfTarget(j)) => AxisRank(A[i]) <= AxisRank(A[j])
            /\ \A j \in 1..Len(A) : ~OfTarget(j) =>
                  /\ {i \in 1..(j - 1) : OfTarget(i)} # {}
                  /\ LET c == CHOOSE i \in {i \in 1..(j - 1) : OfTarget(i)} :
                                  \A k \in {k \in 1..(j - 1) : OfTarget(k)} : k <= i
                     IN /\ AxisRank(A[c]) >= 6
                        /\ A[j].new_value = A[c].new_value
                        /\ AxisRank(A[j]) >= 6]_vars

\* one patch of every axis whose message role was propagated to a sibling:
\* eight entries, the sibling's between the message role and the context role
C16_Witness ==
    /\ Len(requests) = 1 /\ Last.op = "patch" /\ Last.status = 200
    /\ \A k \in {"slots", "evidence", "intentions", "qa_hint", "reviewed", "message_role", "context_updates"} :
          Has(Last.update, k)
    /\ Last.synced_count = 1
    /\ Len(undo_stack) = 8
    /\ undo_stack[6].field_path = <<"message", "role">> /\ undo_stack[6].entry_index = Last.index
    /\ undo_stack[7].entry_index # Last.index
    /\ undo_stack[8].field_path[1] = "context" /\ undo_stack[8].entry_index = Last.index

\* ---- C17

\* the value a record holds at a field path, as the history carries it: null
\* for a field the record does not have, false for a reviewed flag it does
\* not have
ValueAt(entry, fp) ==
    CASE fp[1] = "gold" /\ fp[2] \in {"slots", "evidence"} ->
            IF Has(entry, "gold") /\ Has(entry.gold, fp[2]) /\ Has(entry.gold[fp[2]], fp[3])
            THEN entry.gold[fp[2]][fp[3]] ELSE None
      [] fp[1] = "gold" /\ fp[2] = "intentions" ->
            IF Has(entry, "gold") /\ Has(entry.gold, "intentions") THEN entry.gold.intentions ELSE None
      [] fp[1] = "qa_hint" -> IF Has(entry, "qa_hint") THEN Str(entry.qa_hint) ELSE None
      [] fp[1] = "reviewed" -> Bool(Has(entry, "reviewed") /\ entry.reviewed)
      [] fp[1] = "message" ->
            IF Has(entry, "message") /\ Has(entry.message, "role") THEN Str(entry.message.role) ELSE None
      [] fp[1] = "context" ->
            LET i == CHOOSE i \in 0..3 : IntToStr(i) = fp[2]
            IN IF Has(entry.context[i + 1], "role") THEN Str(entry.context[i + 1].role) ELSE None

\* the fields of the record a patch writes
FieldsWritten(entry, update) ==
    {<<"gold", "slots", update.slots[i][1]>> : i \in 1..Len(Sub(update, "slots"))}
    \cup {<<"gold", "evidence", update.evidence[i][1]>> : i \in 1..Len(Sub(update, "evidence"))}
    \cup (IF Has(update, "intentions") THEN {<<"gold", "intentions">>} ELSE {})
    \cup (IF Has(update, "qa_hint") THEN {<<"qa_hint">>} ELSE {})
    \cup (IF Has(update, "reviewed") THEN {<<"reviewed">>} ELSE {})
    \cup (IF Has(update, "message_role") THEN {<<"message", "role">>} ELSE {})
    \cup {<<"context", IntToStr(update.context_updates[i].index), "role">> :
            i \in {j \in 1..Len(Sub(update, "context_updates")) :
                     LET u == update.context_updates[j]
                     IN Has(u, "index") /\ Has(u, "role") /\ u.role # ""
                        /\ u.index >= 0 /\ u.index < Len(Sub(entry, "context"))}}

\* C17: a patch_entry call appends, for the patched record, one history entry
\* for each field it writes and no other; each entry carries the value the
\* field had before the call as old_value and the value stored as new_value.
C17_OneEntryPerFieldWritten ==
    [][(IsRequest /\ Req.op = "patch" /\ Req.status = 200) =>
         LET OfTarget(e) == e.entry_index = Req.index
             T == SelectSeq(Appended, OfTarget)
             before == Req.before[Req.index + 1]
         IN /\ Len(T) = Cardinality(FieldsWritten(before, Req.update))
            /\ {T[i].field_path : i \in 1..Len(T)} = FieldsWritten(before, Req.update)
            /\ \A i \in 1..Len(T) :
                  /\ T[i].old_value = ValueAt(before, T[i].field_path)
                  /\ T[i].new_value = ValueAt(unsaved_changes'[<<Req.path, Req.index>>], T[i].field_path)]_vars

\* ---- C18, in the model of context updates

\* the context update names a position of the record's context
InRange(u, entry) == Has(u, "index") /\ u.index >= 0 /\ u.index < Len(Sub(entry, "context"))

\* the patch without its context updates of positions out of range
RECURSIVE InRangeOnly(_, _)
InRangeOnly(updates, entry) ==
    IF updates = <<>> THEN <<>>
    ELSE (IF InRange(Head(updates), entry) THEN <<Head(updates)>> ELSE <<>>)
         \o InRangeOnly(Tail(updates), entry)

WithoutOutOfRange(update, entry) ==
    [k \in DOMAIN update |->
        IF k = "context_updates" THEN InRangeOnly(update.context_updates, entry) ELSE update[k]]

\* C18: a context update whose index is outside [0, len(context)), negative
\* indices and records without context included, is passed over: the call
\* answers without error, appends no history entry for it, and leaves the
\* session exactly as the same patch without that update leaves it, so the
\* other axes and the updates in range are applied.
C18_OutOfRangeContextUpdateSkipped ==
    [][(IsRequest /\ Req.op = "patch" /\ Req.status # 404) =>
         LET before == Req.before[Req.index + 1]
             kept == WithoutOutOfRange(Req.update, before)
             st == PatchBody(TheSession, Req.path, disk[Req.path], Req.index, kept)
             InContext == {IntToStr(i) : i \in 0..(Len(Sub(before, "context")) - 1)}
         IN /\ Req.status = 200
            /\ \A i \in 1..Len(Appended) :
                  (Appended[i].entry_index = Req.index /\ Appended[i].field_path[1] = "context")
                     => Appended[i].field_path[2] \in InContext
            /\ \A fp \in FieldsWritten(before, Req.update) :
                  \E i \in 1..Len(Appended) :
                     Appended[i].entry_index = Req.index /\ Appended[i].field_path = fp
            /\ unsaved_changes' = st.s.unsaved_changes
            /\ undo_stack' = st.s.undo_stack
            /\ Req.synced_count = st.synced_count]_vars

\* a patch of a record without context whose context update was passed over
\* and whose qa_hint was written, then a patch with a negative index passed
\* over, a context update in range applied and the reviewed flag written
C18_Witness ==
    /\ Len(requests) = 2
    /\ requests[1].index = 1 /\ Has(requests[1].update, "qa_hint") /\ requests[1].status = 200
    /\ Last.index = 0 /\ Has(Last.update, "reviewed") /\ Last.status = 200
    /\ Len(undo_stack) = 3
    /\ undo_stack[1].field_path = <<"qa_hint">>
    /\ undo_stack[2].field_path = <<"reviewed">>
    /\ undo_stack[3].field_path = <<"context", "0", "role">>

\* ---- C19, in the model of slot values

\* the parts of a comma-separated string, by positions: each part runs from a
\* start (the beginning, or a comma) to the next comma or the end, loses the
\* spaces around it, and is left out when nothing remains
PartEnd(chars, b) ==
    LET commas == {i \in (b + 1)..Len(chars) : chars[i] = ","}
    IN IF commas = {} THEN Len(chars) + 1 ELSE CHOOSE i \in commas : \A j \in commas : i <= j

Trimmed(chars, b) ==
    LET inked == {i \in (b + 1)..(PartEnd(chars, b) - 1) : chars[i] # " "}
    IN IF inked = {} THEN <<>>
       ELSE SubSeq(chars, CHOOSE i \in inked : \A j \in inked : i <= j,
                          CHOOSE i \in inked : \A j \in inked : i >= j)

RECURSIVE PartsFrom(_, _)
PartsFrom(chars, b) ==
    (IF Trimmed(chars, b) # <<>> THEN <<Trimmed(chars, b)>> ELSE <<>>)
    \o (IF PartEnd(chars, b) > Len(chars) THEN <<>> ELSE PartsFrom(chars, PartEnd(chars, b)))

\* the slot a patch of one slot names, the value it sends, the value stored
SentName(r) == r.update.slots[1][1]
SentValue(r) == r.update.slots[1][2]
StoredValue(r) == unsaved_changes[<<r.path, r.index>>].gold.slots[SentName(r)]

IsSlotPatch(r) == r.op = "patch" /\ r.status = 200 /\ Has(r.update, "slots")

IsString(value) == value[1] = "text"

RECURSIVE NoNull(_)
NoNull(obj) ==
    /\ Tag(obj) # "null"
    /\ Tag(obj) = "dict" => \A k \in DOMAIN Val(obj) : NoNull(Val(obj)[k])
    /\ Tag(obj) = "list" => \A i \in 1..Len(Val(obj)) : NoNull(Val(obj)[i])

\* the non-null values of a JSON value, each with the path that leads to it:
\* the scalars, and a mark for every dict and every list; a list element is
\* named by its place among the non-null elements of its list
RECURSIVE Leaves(_, _)
Leaves(obj, path) ==
    CASE Tag(obj) = "null" -> {}
      [] Tag(obj) = "str" -> {<<path, Val(obj)>>}
      [] Tag(obj) = "dict" ->
            {<<path, "{}">>} \cup UNION {Leaves(Val(obj)[k], Append(path, k)) : k \in DOMAIN Val(obj)}
      [] Tag(obj) = "list" ->
            {<<path, "[]">>}
            \cup UNION {Leaves(Val(obj)[i],
                               Append(path, IntToStr(Cardinality({j \in 1..(i - 1) : Tag(Val(obj)[j]) # "null"})))) :
                          i \in 1..Len(Val(obj))}

StartsWith(path, prefix) ==
    Len(path) >= Len(prefix) /\ SubSeq(path, 1, Len(prefix)) = prefix

CleanInput == disk[<<"data", FileId>>][1]
CleanOutput == disk[<<"reviewed", FileId>>][1]

\* C20: the record clean_entry returns has no qa_hint key, no gold.evidence
\* key and no null at any depth, neither as the value of a key nor as the
\* element of a list; every non-null value of the input outside qa_hint and
\* gold.evidence is in the output, at its place and unchanged, and the output
\* holds nothing else.
C20_CleanEntryRemovesHintEvidenceNulls ==
    <<"reviewed", FileId>> \in DOMAIN disk =>
        /\ Tag(CleanOutput) = "dict"
        /\ ~Has(Val(CleanOutput), "qa_hint")
        /\ (Has(Val(CleanOutput), "gold") /\ Tag(Val(CleanOutput).gold) = "dict")
              => ~Has(Val(Val(CleanOutput).gold), "evidence")
        /\ NoNull(CleanOutput)
        /\ Leaves(CleanOutput, <<>>) =
              {l \in Leaves(CleanInput, <<>>) :
                  ~StartsWith(l[1], <<"qa_hint">>) /\ ~StartsWith(l[1], <<"gold", "evidence">>)}

\* a cleaned record that had a qa_hint, evidence with a null in it, a slot
\* holding a list of a list and a dict with nulls, and an unknown field whose
\* own qa_hint key is kept
C20_Witness ==
    /\ <<"reviewed", FileId>> \in DOMAIN disk
    /\ Has(Val(CleanInput), "qa_hint") /\ Val(CleanInput).qa_hint = JStr("x")
    /\ Has(Val(CleanInput), "gold") /\ Tag(Val(CleanInput).gold) = "dict"
    /\ Has(Val(Val(CleanInput).gold), "evidence")
    /\ Tag(Val(Val(CleanInput).gold).evidence) = "dict"
    /\ Val(Val(Val(CleanInput).gold).slots).treatment =
          JList(<< JList(<< JNull, JStr("n") >>), JDict([k |-> JNull, m |-> JStr("v")]) >>)
    /\ Val(Val(Val(CleanOutput).gold).slots).treatment =
          JList(<< JList(<< JStr("n") >>), JDict([m |-> JStr("v")]) >>)
    /\ Has(Val(CleanOutput), "source") /\ Has(Val(Val(CleanOutput).source), "qa_hint")
    /\ Has(Val(CleanOutput), "context")

\* ---- C21, in the model of one call of clean_entry

\* C21: clean_entry never changes its argument: after the call the record
\* handed over, with its nested gold, slots, evidence and context objects,
\* is equal to what it was before the call.
C21_CleanEntryKeepsArgument ==
    requests # <<>> => requests[1].entry = requests[1].argument

\* a call on a record with a qa_hint, evidence and nulls, all of which the
\* value returned has lost and the argument still has
C21_Witness ==
    /\ requests # <<>>
    /\ LET a == requests[1].entry
           r == requests[1].returned
       IN /\ Has(Val(a), "qa_hint") /\ ~Has(Val(r), "qa_hint")
          /\ Has(Val(a), "gold") /\ Tag(Val(a).gold) = "dict"
          /\ Has(Val(Val(a).gold), "evidence") /\ ~Has(Val(Val(r).gold), "evidence")
          /\ Has(Val(a), "context") /\ ~NoNull(Val(a).context) /\ NoNull(r)
          /\ ~NoNull(Val(Val(a).gold).slots)

\* ---- C22, in the model of get_file_by_id by paths

\* the path lies in the directory root or below it
Inside(path, root) == relative_to(path, root) # <<>>

\* C22: get_file_by_id returns a file only when its resolved path lies inside
\* the resolved data root, or inside the reviewed root when the file is found
\* there; a file id whose decoded path resolves to a place outside these
\* roots, for example through ".." segments, yields None.
C22_FileOutsideRootsYieldsNone ==
    (requests # <<>> /\ Last.returned # <<>>) =>
        \/ Inside(Last.returned[1], <<data_root>>)
        \/ Last.reviewed_root # <<>> /\ Inside(Last.returned[1], Last.reviewed_root[1])

\* ---- C23, in the model of patches and reads

IsPatched(r) == r.op = "patch" /\ r.status = 200

\* C23: after every successful patch_entry the session holds an override for
\* the patched position, as the has_unsaved = true of the response says, and
\* a get_entry on the position that follows reports has_unsaved = true.
C23_PatchLeavesOverride ==
    /\ (requests # <<>> /\ IsPatched(Last)) =>
          /\ Last.has_unsaved
          /\ <<Last.path, Last.index>> \in DOMAIN unsaved_changes
    /\ (Len(requests) >= 2 /\ Last.op = "get" /\ Last.status = 200
          /\ IsPatched(requests[Len(requests) - 1])
          /\ requests[Len(requests) - 1].index = Last.index) => Last.has_unsaved

\* ---- C24 and C25, in the model of update_entry

UpdatedPath == <<data_root, FileId>>

\* C24: update_entry(path, i, e) with 0 <= i < length, when it returns,
\* has replaced the record at position i only: the file holds e at position
\* i, at every other position the record it held before, and as many
\* records as before.
C24_UpdateReplacesOneRecord ==
    [][(IsRequest /\ Req.op = "update_entry" /\ Req.raised = ""
          /\ 0 <= Req.index /\ Req.index < Len(disk[UpdatedPath]))
        => /\ Len(disk'[UpdatedPath]) = Len(disk[UpdatedPath])
           /\ disk'[UpdatedPath][Req.index + 1] = Req.entry
           /\ \A p \in 1..Len(disk[UpdatedPath]) :
                 p # Req.index + 1 => disk'[UpdatedPath][p] = disk[UpdatedPath][p]]_vars

\* the second of two records replaced by another record, the first still there
C24_Witness ==
    /\ requests # <<>> /\ Last.op = "update_entry" /\ Last.raised = "" /\ Last.index = 1
    /\ Len(disk[UpdatedPath]) = 2
    /\ disk[UpdatedPath][2] = Last.entry
    /\ disk[UpdatedPath][1] # Last.entry
    /\ <<data_root, "a.2.bak">> \in DOMAIN disk /\ disk[<<data_root, "a.2.bak">>][2] # Last.entry

\* C25: update_entry with an index outside [0, length) raises IndexError and
\* has no effect: the file is as before, no backup file is created and no
\* line is written to the audit log.
C25_IndexOutOfRangeHasNoEffect ==
    [][(IsRequest /\ Req.op = "update_entry"
          /\ (Req.index < 0 \/ Req.index >= Len(disk[UpdatedPath])))
        => /\ Req.raised = "IndexError"
           /\ disk' = disk]_vars

\* a call with the index one past the end and one with index -1, both with
\* backup and log asked for, on a file with records
C25_Witness ==
    /\ requests # <<>> /\ Last.op = "update_entry" /\ Last.raised = "IndexError"
    /\ Last.index \in {0 - 1, Len(disk[UpdatedPath])}
    /\ Len(disk[UpdatedPath]) >= 1
    /\ Last.backup /\ Last.log_path # <<>>
    /\ DOMAIN disk = {UpdatedPath}

\* ---- C26 and C28, in the model of propagation to several messages

\* the record with the role on every message of the ts_ms
SetRoles(entry, ts_ms, role) ==
    LET e1 == IF Has(entry, "message") /\ HasTs(entry.message, ts_ms)
              THEN Set(entry, "message", Set(entry.message, "role", role)) ELSE entry
    IN IF Has(e1, "context")
       THEN Set(e1, "context",
                [i \in 1..Len(e1.context) |->
                    IF HasTs(e1.context[i], ts_ms) THEN Set(e1.context[i], "role", role)
                    ELSE e1.context[i]])
       ELSE e1

\* the record after the runs k.. of a request, in order
RECURSIVE AfterRuns(_, _, _)
AfterRuns(entry, runs, k) ==
    IF k > Len(runs) THEN entry
    ELSE AfterRuns(SetRoles(entry, runs[k].ts_ms, runs[k].new_role), runs, k + 1)

\* the message held a role other than the one the run brings
DiffersIn(m, run) == HasTs(m, run.ts_ms) /\ ~HasRole(m, run.new_role)

OldRole(m) == IF Has(m, "role") THEN Str(m.role) ELSE None

\* the history entries a run owes to the record at place p of its view: one
\* for the main message, then one for each context entry from i on
RECURSIVE ContextEdits(_, _, _, _)
ContextEdits(run, path, p, i) ==
    LET e == run.view[p]
    IN IF ~Has(e, "context") \/ i > Len(e.context) THEN <<>>
       ELSE (IF DiffersIn(e.context[i], run)
             THEN <<[file_path |-> path, entry_index |-> p - 1, entry_id |-> e.id,
                     field_path |-> <<"context", IntToStr(i - 1), "role">>,
                     old_value |-> OldRole(e.context[i]), new_value |-> Str(run.new_role)]>>
             ELSE <<>>)
            \o ContextEdits(run, path, p, i + 1)

RecordEdits(run, path, p) ==
    LET e == run.view[p]
    IN IF p = run.source_index + 1 THEN <<>>
       ELSE (IF Has(e, "message") /\ DiffersIn(e.message, run)
             THEN <<[file_path |-> path, entry_index |-> p - 1, entry_id |-> e.id,
                     field_path |-> <<"message", "role">>,
                     old_value |-> OldRole(e.message), new_value |-> Str(run.new_role)]>>
             ELSE <<>>)
            \o ContextEdits(run, path, p, 1)

\* the entries owed by the runs k.. to the records p.. of the collection
RECURSIVE RunsEdits(_, _, _, _)
RunsEdits(runs, path, k, p) ==
    IF k > Len(runs) THEN <<>>
    ELSE IF p > Len(runs[k].view) THEN RunsEdits(runs, path, k + 1, 1)
    ELSE RecordEdits(runs[k], path, p) \o RunsEdits(runs, path, k, p + 1)

\* C26: when propagation changes several messages of one candidate record
\* (its main message, context entries of the ts_ms), the session ends with
\* one override for the position that holds all of these role updates, and
\* the history gains one entry per changed message, with the field path
\* message.role or context[i].role, the old role and the new role.
C26_PropagationCoalescesPerRecord ==
    [][(IsRequest /\ Req.op = "patch" /\ Req.status = 200) =>
         /\ SelectSeq(Appended, LAMBDA e : e.entry_index # Req.index)
               = RunsEdits(Req.runs, Req.path, 1, 1)
         /\ \A p \in 1..Len(Req.before) : p # Req.index + 1 =>
               IF \E k \in 1..Len(Req.runs) : RecordEdits(Req.runs[k], Req.path, p) # <<>>
               THEN /\ <<Req.path, p - 1>> \in DOMAIN unsaved_changes'
                    /\ unsaved_changes'[<<Req.path, p - 1>>] = AfterRuns(Req.before[p], Req.runs, 1)
                    /\ Cardinality({k \in DOMAIN unsaved_changes' : k[1] = Req.path /\ k[2] = p - 1}) = 1
               ELSE /\ (<<Req.path, p - 1>> \in DOMAIN unsaved_changes') = (<<Req.path, p - 1>> \in DOMAIN unsaved_changes)
                    /\ <<Req.path, p - 1>> \in DOMAIN unsaved_changes
                          => unsaved_changes'[<<Req.path, p - 1>>] = unsaved_changes[<<Req.path, p - 1>>]]_vars

\* one patch of the role of record 0: record 1 has its main message and its
\* first context entry changed (two history entries, one override with
\* both), record 3 two context entries
C26_Witness ==
    /\ Len(requests) = 1 /\ Last.op = "patch" /\ Last.status = 200 /\ Last.index = 0
    /\ Last.synced_count = 3 /\ Len(undo_stack) = 6
    /\ undo_stack[2].entry_index = 1 /\ undo_stack[2].field_path = <<"message", "role">>
    /\ undo_stack[3].entry_index = 1 /\ undo_stack[3].field_path = <<"context", "0", "role">>
    /\ undo_stack[5].entry_index = 3 /\ undo_stack[6].entry_index = 3
    /\ unsaved_changes[<<Last.path, 1>>].message.role = "brand"
    /\ \A i \in {1, 3} : unsaved_changes[<<Last.path, 1>>].context[i].role = "brand"
    /\ \A i \in {1, 2} : unsaved_changes[<<Last.path, 3>>].context[i].role = "brand"

\* ---- C27, in the model of the handlers

\* the structured messages of the collection that carry a ts_ms
Stamped(view) ==
    UNION {{m \in MessagesOf(view[p]) : _get_message_ts(m) # <<>>} : p \in 1..Len(view)}

\* messages of one ts_ms have one role
Consistent(view) ==
    \A m \in Stamped(view), n \in Stamped(view) : m.ts_ms = n.ts_ms => RoleOf(m) = RoleOf(n)

\* C27: role consistency is preserved: if in the initial collection all
\* messages (main messages and context entries) that share a ts_ms carry the
\* same role, then after any sequence of role patches on any records all
\* messages that share a ts_ms in the effective view still carry the same
\* role.
C27_RolePatchesKeepRolesConsistent ==
    ((\A i \in 1..Len(requests) : requests[i].op = "patch") /\ Consistent(disk[<<data_root, FileId>>]))
        => Consistent(CurrentView)

\* ---- C29, in the model of two collections

\* the history entries made for collections other than file_path
EditsElsewhere(stack, file_path) == SelectSeq(stack, LAMBDA e : e.file_path # file_path)

\* C29: propagation is confined to one collection: a role patch on a record
\* of collection A never creates or changes an override or a history entry
\* for a position of another collection B, even when B holds messages with
\* the same ts_ms.
C29_PropagationStaysInCollection ==
    [][(IsRequest /\ IsRolePatch(Req)) =>
         /\ OverridesElsewhere(unsaved_changes', Req.path) = OverridesElsewhere(unsaved_changes, Req.path)
         /\ EditsElsewhere(undo_stack', Req.path) = EditsElsewhere(undo_stack, Req.path)
         /\ \A i \in 1..Len(Appended) : Appended[i].file_path = Req.path]_vars

\* a.jsonl was patched to "brand" for the message of ts_ms 1000 and a sibling
\* followed, while b.jsonl holds the ts_ms with the role "client", on disk
\* and in an override that a patch of b.jsonl made before
C29_Witness ==
    /\ Len(requests) >= 2 /\ IsRolePatch(Last) /\ Last.path = <<data_root, FileId>>
    /\ Last.synced_count = 1 /\ Last.runs[1].ts_ms = 1000 /\ Last.runs[1].new_role = "brand"
    /\ <<<<data_root, OtherFileId>>, 0>> \in DOMAIN unsaved_changes
    /\ unsaved_changes[<<<<data_root, OtherFileId>>, 0>>].message = Msg("client", "hi", 1000)
    /\ \E i \in 1..Len(undo_stack) : undo_stack[i].file_path = <<data_root, OtherFileId>>

\* ---- C30, in the model of the reviewed output directories

OriginalFile == <<data_root, FileId>>

\* the reviewed location of the collection is another path than its original
ReviewedElsewhere == _get_reviewed_root \o <<FileId>> # OriginalFile

\* C30: toggle-reviewed and save-all write to the reviewed location only:
\* whenever the reviewed location is a path different from the original
\* file, the original file under the data root is modified by no patch, no
\* toggle-reviewed and no save-all call.
C30_OriginalFileIsNeverWritten ==
    [][ReviewedElsewhere =>
         /\ OriginalFile \in DOMAIN disk'
         /\ disk'[OriginalFile] = disk[OriginalFile]]_vars

\* a toggle, a patch and a save-all that wrote were answered 200, there are
\* files at the reviewed location, and the original is as it was at start
C30_Witness ==
    /\ ReviewedElsewhere
    /\ Len(requests) = 3
    /\ requests[1].op = "reviewed" /\ requests[2].op = "patch" /\ requests[3].op = "save"
    /\ \A i \in 1..3 : requests[i].status = 200
    /\ requests[3].message = "Saved"
    /\ disk[OriginalFile] = PatchFile
    /\ \E p \in DOMAIN disk : p # OriginalFile /\ disk[p] # PatchFile

\* the messages of a record that are no structured objects
Malformed(m) == Has(m, "raw")

\* the patch addresses only structured context entries of its own record
TargetWellFormed(r) ==
    ~Has(r.update, "context_updates") \/
    \A i \in 1..Len(r.update.context_updates) :
        LET u == r.update.context_updates[i]
            context == Sub(r.before[r.index + 1], "context")
        IN (Has(u, "index") /\ u.index >= 0 /\ u.index < Len(context)) => ~Malformed(context[u.index + 1])

\* C28: propagation takes a sibling's main message or context entry that is
\* no structured object for "no match": the call raises no error for it, no
\* history entry and no override is made on its account, the message stays
\* as it is, and the records that follow are still processed.
C28_MalformedSiblingIsNoMatch ==
    [][(IsRequest /\ Req.op = "patch" /\ Req.status # 404 /\ TargetWellFormed(Req)) =>
         /\ Req.status = 200
         /\ \A i \in 1..Len(Appended) :
               LET e == Appended[i]
                   b == Req.before[e.entry_index + 1]
               IN e.entry_index # Req.index =>
                    IF e.field_path[1] = "message" THEN Has(b, "message") /\ ~Malformed(b.message)
                    ELSE \E c \in 1..Len(Sub(b, "context")) :
                            e.field_path[2] = IntToStr(c - 1) /\ ~Malformed(b.context[c])
         /\ \A p \in 1..Len(Req.before) : p # Req.index + 1 =>
               /\ (\A m \in MessagesOf(Req.before[p]) : Malformed(m))
                     => /\ (<<Req.path, p - 1>> \in DOMAIN unsaved_changes') = (<<Req.path, p - 1>> \in DOMAIN unsaved_changes)
                        /\ \A i \in 1..Len(Appended) : Appended[i].entry_index # p - 1
               /\ <<Req.path, p - 1>> \in DOMAIN unsaved_changes' =>
                     LET now == unsaved_changes'[<<Req.path, p - 1>>]
                     IN /\ (Has(Req.before[p], "message") /\ Malformed(Req.before[p].message))
                              => now.message = Req.before[p].message
                        /\ \A c \in 1..Len(Sub(Req.before[p], "context")) :
                              Malformed(Req.before[p].context[c]) => now.context[c] = Req.before[p].context[c]
         /\ \A k \in 1..Len(Req.runs) : \A p \in ToChange(Req.runs[k]) :
               \E i \in 1..Len(Appended) :
                  Appended[i].entry_index = p - 1 /\ Appended[i].new_value = Str(Req.runs[k].new_role)]_vars

\* a patch of record 0 that went past record 2, whose main message and first
\* context entry are no dicts: its second context entry has the role, the
\* two others are as they were, and record 3 after it was changed too
C28_Witness ==
    /\ Len(requests) = 1 /\ Last.op = "patch" /\ Last.status = 200 /\ Last.index = 0
    /\ <<Last.path, 2>> \in DOMAIN unsaved_changes
    /\ unsaved_changes[<<Last.path, 2>>].message = [raw |-> "legacy"]
    /\ unsaved_changes[<<Last.path, 2>>].context[1] = [raw |-> "old"]
    /\ unsaved_changes[<<Last.path, 2>>].context[2].role = "brand"
    /\ <<Last.path, 3>> \in DOMAIN unsaved_changes
    /\ \E i \in 1..Len(undo_stack) : undo_stack[i].entry_index = 3

\* ---- C31, in the model of the reviewed output directories

\* C31: a successful save-all does not change what readers see: for every
\* position of the collection, the record get_entry returns right after the
\* save equals the effective record (override if present, else disk) right
\* before the save.
C31_SaveKeepsWhatReadersSee ==
    \A n \in 2..Len(requests) :
        (/\ requests[n - 1].op = "save" /\ requests[n - 1].message = "Saved"
         /\ requests[n].op = "get"
         /\ requests[n].index \in 0..(Len(requests[n - 1].before) - 1))
        => /\ requests[n].status = 200
           /\ requests[n].entry = requests[n - 1].before[requests[n].index + 1]

\* ---- C32, in the model of two collections

\* C32: if a toggle-reviewed call fails at the write step and the caller
\* repeats the call, which then succeeds, the record persisted at the
\* reviewed location has a reviewed flag that is the negation of the value
\* the record had before the first attempt.
C32_RetriedToggleCompletesToggle ==
    (/\ Len(requests) >= 2
     /\ Last.op = "reviewed" /\ Last.status = 200
     /\ requests[Len(requests) - 1].op = "reviewed" /\ requests[Len(requests) - 1].status = 500
     /\ requests[Len(requests) - 1].file_id = Last.file_id
     /\ requests[Len(requests) - 1].index = Last.index)
    => ReviewedOf(disk[ReviewedLocation(Last)][Last.index + 1])
         = ~ReviewedOf(requests[Len(requests) - 1].before[Last.index + 1])

\* ---- C33, in the model of propagation to several messages

\* C33: the synced_count returned by one patch_entry call is a count of
\* other records of the collection: it never exceeds the number of records
\* minus one, whatever message_role and context_updates the patch carries.
C33_SyncedCountAtMostOtherRecords ==
    \A n \in 1..Len(requests) :
        (requests[n].op = "patch" /\ requests[n].status = 200)
        => requests[n].synced_count <= Len(requests[n].before) - 1

\* ---- C34, in the model of the reviewed output directories

\* C34: in every state reachable by patch, toggle-reviewed and save-all
\* calls, every key (collection, position) of unsaved_changes refers to an
\* existing position, 0 <= position < number of records of that collection,
\* so that save-all drops no override for being out of range.
C34_OverridesAreInRange ==
    \A k \in DOMAIN unsaved_changes :
        /\ k[1] \in DOMAIN disk
        /\ 0 <= k[2] /\ k[2] < Len(read_jsonl(disk, k[1]))

\* overrides for both positions, made by patches after a call for the
\* position one past the end was refused
C34_Witness ==
    /\ Len(requests) = 3
    /\ requests[1].op = "patch" /\ requests[1].index = Len(PatchFile) /\ requests[1].status = 404
    /\ requests[2].op = "patch" /\ requests[2].status = 200
    /\ requests[3].op = "patch" /\ requests[3].status = 200
    /\ Cardinality(DOMAIN unsaved_changes) = 2

\* ---- C35, in the model of the event loop

\* the record of the position as the session and the disk hold it
Effective(path, index) ==
    IF <<path, index>> \in DOMAIN unsaved_changes THEN unsaved_changes[<<path, index>>]
    ELSE disk[path][index + 1]

\* C35: request handlers run one at a time: patch_entry, mark_reviewed and
\* save_file go from reading the session and the disk to updating the
\* session without another request in between, so no order of arrival of
\* two requests makes one overwrite the other's buffered edit: a patch
\* keeps every field it does not write as the session held it, a toggle
\* and a save-all write every record as the session held it.
C35_HandlersLoseNoUpdate ==
    [][(IsRequest /\ Req.status = 200) =>
         LET path == Req.path
         IN /\ Req.op = "patch" =>
                 /\ \A k \in DOMAIN unsaved_changes : k \in DOMAIN unsaved_changes'
                 /\ \A k \in DOMAIN unsaved_changes : k # <<path, Req.index>> => unsaved_changes'[k] = unsaved_changes[k]
                 /\ \A f \in DOMAIN Effective(path, Req.index) \ DOMAIN Req.update :
                       /\ f \in DOMAIN unsaved_changes'[<<path, Req.index>>]
                       /\ unsaved_changes'[<<path, Req.index>>][f] = Effective(path, Req.index)[f]
            /\ Req.op = "reviewed" =>
                 \A i \in 0..(Len(disk[path]) - 1) :
                    disk'[ReviewedLocation(Req)][i + 1]
                      = IF i = Req.index THEN ToggleReviewed(Effective(path, i)) ELSE Effective(path, i)
            /\ (Req.op = "save" /\ Req.message = "Saved") =>
                 \A i \in 0..(Len(disk[path]) - 1) :
                    disk'[ReviewedLocation(Req)][i + 1] = Effective(path, i)
            /\ (Req.op = "save" /\ Req.message # "Saved") =>
                 \A k \in DOMAIN unsaved_changes : k[1] # path]_vars

\* two patches of record 0 arrived before either ran, then a save-all; the
\* override holds both edits and the save wrote both
C35_Witness ==
    /\ Len(loop) = 3 /\ Len(requests) = 3
    /\ loop[2].seen = loop[1].seen /\ loop[3].seen = loop[1].seen
    /\ requests[1].op = "patch" /\ requests[1].index = 0 /\ requests[1].update = [qa_hint |-> "ask"]
    /\ requests[2].op = "patch" /\ requests[2].index = 0 /\ requests[2].update = [reviewed |-> TRUE]
    /\ Last.op = "save" /\ Last.message = "Saved"
    /\ disk[ReviewedLocation(Last)][1].qa_hint = "ask"
    /\ disk[ReviewedLocation(Last)][1].reviewed = TRUE

\* ---- C36, in the model of list_entries

\* C36: for every entry list_entries returns, under any filter, search text
\* and page, its _original_index is the zero-based position of that entry in
\* the unfiltered collection, also when the collection holds structurally
\* identical records.
C36_OriginalIndexIsPosition ==
    \A n \in 1..Len(requests) :
        (requests[n].op = "list" /\ requests[n].status = 200)
        => \A j \in 1..Len(requests[n].entries) :
              requests[n].entries[j]._original_index = requests[n].places[j] - 1

\* ---- C37, in the model of get_file_by_id

\* C37: file identifiers round-trip: for every file under the root,
\* get_file_by_id(root, path_to_file_id(root, path)) resolves back to that
\* same path, whatever the names of the file and its directories, names
\* with a double underscore included.
C37_FileIdRoundTrips ==
    \A n \in 1..Len(requests) :
        requests[n].op = "round_trip" => requests[n].returned = <<requests[n].path>>

\* ---- C38, in the model of update_entry beside the handlers

IsBackup(p) == p[Len(p)] \in {"a.1.bak", "a.2.bak"}

\* C38: update_entry with backup enabled takes the backup before it
\* overwrites the file: after a successful call a backup file exists whose
\* content is the file's content from before the update; and the save paths
\* of the session (toggle-reviewed, save-all) create no backup file.
C38_BackupHoldsContentBeforeUpdate ==
    [][IsRequest =>
         /\ (Req.op = "update_entry" /\ Req.backup /\ Req.raised = "")
               => \E p \in DOMAIN disk' : IsBackup(p) /\ disk'[p] = disk[UpdatedPath]
         /\ Req.op \in {"reviewed", "save", "patch"}
               => \A p \in DOMAIN disk' : IsBackup(p) => (p \in DOMAIN disk /\ disk'[p] = disk[p])]_vars

\* update_entry made the backup a.2.bak of the two records it found and
\* replaced the second; a patch and a save-all that wrote came after, and
\* the backup is still the only one
C38_Witness ==
    /\ Len(requests) = 3
    /\ requests[1].op = "update_entry" /\ requests[1].backup /\ requests[1].raised = "" /\ requests[1].index = 1
    /\ requests[2].op = "patch" /\ requests[3].op = "save" /\ requests[3].message = "Saved"
    /\ {p \in DOMAIN disk : IsBackup(p)} = {<<data_root, "a.2.bak">>}
    /\ Len(disk[<<data_root, "a.2.bak">>]) = 2
    /\ disk[<<data_root, "a.2.bak">>][2] # disk[UpdatedPath][2]
    /\ disk[<<data_root, "a.2.bak">>][1] = disk[UpdatedPath][1]
    /\ ReviewedLocation(Last) \in DOMAIN disk

====
